---------------------------- MODULE Spec2Model ----------------------------
(***************************************************************************)
(* Model of the coding-challenge game server: the controller event loop    *)
(* (src/src/controller.rs), the player registry (src/src/player_table.rs), *)
(* the turn rotation (src/src/turn_tracker.rs) and the five-in-a-row rule  *)
(* engine (src/src/games/gomoku.rs).                                       *)
(*                                                                         *)
(* Option<T> values are sequences of length at most one: <<>> is None and  *)
(* <<v>> is Some(v).  Vec indexes are 0-based in the source; a Vec is a    *)
(* TLA+ sequence here, so element i of the source is element i + 1.        *)
(* A Rust panic (unwrap on None/Err) is carried as a "panic" field through *)
(* the operators and ends the controller (pc = "panicked").                *)
(***************************************************************************)
EXTENDS Integers, Sequences, FiniteSets, TLC

\* ------------------------------------------------------------------ bounds

\* Connections the accept loop takes in one run (each sends one ImConnected).
MaxConns == 2

\* Wins counted per player before the model stops feeding winning moves.
MaxScore == 2

\* Player names that log in.
Names == {"p1", "p2"}

None == <<>>
Some(v) == <<v>>

\* `LET v == value IN F(v)`, with the value evaluated in one place.
With(value, F(_)) == F(value)

\* ------------------------------------------------------- turn_tracker.rs

\* TurnTracker::new
TurnTracker_new(users) ==
    [players |-> users, current_player_index |-> 0]

\* 0-based position of the first rotation entry called username
\* (Itertools::find_position); None when there is none.
find_position(players, username) ==
    LET hits == {i \in 1..Len(players) : players[i] = username}
    IN  IF hits = {} THEN None
        ELSE Some((CHOOSE i \in hits : \A j \in hits : i <= j) - 1)

\* TurnTracker::remove_player: the unwrap of find_position panics when the
\* name is not in the rotation.
TurnTracker_remove_player(tt, username) ==
    With(find_position(tt.players, username), LAMBDA pos :
        IF pos = None
        THEN [tt |-> tt, panic |-> TRUE]
        ELSE LET i   == pos[1]
                 cur == tt.current_player_index
                 idx == IF i <= cur
                        THEN IF Len(tt.players) = 0 THEN 0
                             ELSE IF i = 0 THEN Len(tt.players) - 1
                             ELSE cur - 1
                        ELSE cur
             IN  [tt |-> [players |-> SelectSeq(tt.players,
                                        LAMBDA u : u # username),
                          current_player_index |-> idx],
                  panic |-> FALSE])

\* TurnTracker::add_player
TurnTracker_add_player(tt, user) ==
    [tt EXCEPT !.players = Append(@, user)]

\* TurnTracker::advance_player: the new tracker and the user now current.
TurnTracker_advance_player(tt) ==
    IF Len(tt.players) = 0
    THEN [tt |-> tt, user |-> None]
    ELSE LET idx == (tt.current_player_index + 1) % Len(tt.players)
         IN  [tt |-> [tt EXCEPT !.current_player_index = idx],
              user |-> Some(tt.players[idx + 1])]

\* ----------------------------------------------------------- gametraits.rs

\* Move payloads a client can put on the wire: a well-formed
\* {"move":{"x":..,"y":..}} line, or a line that is not one.
MovePayloads ==
    { [fmt |-> "move", x |-> x, y |-> 0] : x \in 0..5 }
        \cup { [fmt |-> "other", x |-> 0, y |-> 0] }

\* gametraits::to_player_move::<gomoku::PlayerMove>: Some(move) when the
\* payload deserialises as Move(PlayerMove {x, y}), else None.
to_player_move(p_move) ==
    IF p_move.fmt = "move"
    THEN Some([x |-> p_move.x, y |-> p_move.y])
    ELSE None

\* ------------------------------------------------------------ gomoku.rs

\* Width, in bits, of the signed integer the coordinates are cast to
\* (`x as i32`), scaled down so that TLC's integers can hold it.
I32Bits == 4

\* `v as i32` of an unsigned v: the low bits, read as two's complement.
as_i32(v) ==
    LET m == v % (2 ^ I32Bits)
    IN  IF m >= 2 ^ (I32Bits - 1) THEN m - 2 ^ I32Bits ELSE m

Empty == <<>>
Occupied(user) == <<user>>

\* Game::new(w, h, players)
Game_new(w, h, users) ==
    [board   |-> [cells |-> [i \in 1..(w * h) |-> Empty],
                  width |-> w, height |-> h],
     winner  |-> None,
     players |-> TurnTracker_new(users)]

\* Board::at and Board::at_mut (the two differ in mutability only).
Board_at(board, x, y) ==
    IF x < 0 \/ y < 0 \/ x >= board.width \/ y >= board.height
    THEN None
    ELSE Some(board.cells[y * board.width + x + 1])

\* a..b of Rust as a sequence (b excluded), and its reverse
Range(a, b) == [i \in 1..(b - a) |-> a + i - 1]
Rev(s) == [i \in 1..Len(s) |-> s[Len(s) + 1 - i]]
Repeat(v, n) == [i \in 1..n |-> v]

\* The groups of group_by over a sequence of keys: the maximal runs
\* <<first, last>> of consecutive equal keys.
group_by(key) ==
    { r \in (1..Len(key)) \X (1..Len(key)) :
        /\ r[1] <= r[2]
        /\ \A i \in r[1]..r[2] : key[i] = key[r[1]]
        /\ (r[1] = 1 \/ key[r[1] - 1] # key[r[1]])
        /\ (r[2] = Len(key) \/ key[r[2] + 1] # key[r[2]]) }

\* Iterator::max_by on the group lengths: the longest group, the last one
\* among equally long ones.
max_by_len(runs) ==
    CHOOSE r \in runs : \A q \in runs :
        \/ r[2] - r[1] > q[2] - q[1]
        \/ (r[2] - r[1] = q[2] - q[1] /\ r[1] >= q[1])

\* range_contains_win reporting the two ends of the range it was given, not
\* those of the longest group.
range_contains_win_range_ends(board, x_range, y_range) ==
    LET n == IF Len(x_range) < Len(y_range) THEN Len(x_range)
             ELSE Len(y_range)
    IN  With(group_by([i \in 1..n |-> Board_at(board, x_range[i], y_range[i])]),
             LAMBDA runs :
        IF runs = {} THEN None
        ELSE With(max_by_len(runs), LAMBDA a :
                 IF a[2] - a[1] + 1 >= 5
                 THEN Some(<< <<x_range[1], y_range[1]>>,
                              <<x_range[n], y_range[n]>> >>)
                 ELSE None))

\* Board::range_contains_win: zip the two ranges, group consecutive equal
\* cells (off-board positions are None and group with each other), take the
\* longest group and report its first and last coordinates when it has at
\* least 5 cells.
range_contains_win(board, x_range, y_range) ==
    LET n == IF Len(x_range) < Len(y_range) THEN Len(x_range)
             ELSE Len(y_range)
    IN  With(group_by([i \in 1..n |-> Board_at(board, x_range[i], y_range[i])]),
             LAMBDA runs :
        IF runs = {} THEN None
        ELSE With(max_by_len(runs), LAMBDA a :
                 IF a[2] - a[1] + 1 >= 5
                 THEN Some(<< <<x_range[a[1]], y_range[a[1]]>>,
                              <<x_range[a[2]], y_range[a[2]]>> >>)
                 ELSE None))

\* The first Some of a sequence of Options (the or_else chain), else None.
or_else(opts) ==
    LET hits == { i \in 1..Len(opts) : opts[i] # None }
    IN  IF hits = {} THEN None
        ELSE opts[CHOOSE i \in hits : \A j \in hits : i <= j]

\* Board::check_for_win_around without the last window of the chain.
check_for_win_around_three_windows(board, ux, uy) ==
    LET x  == as_i32(ux)
        y  == as_i32(uy)
    IN  With(or_else(<<
                range_contains_win(board, Repeat(x, 9), Range(y - 4, y + 5)),
                range_contains_win(board, Range(x - 4, x + 5), Range(y - 4, y + 5)),
                range_contains_win(board, Range(x - 4, x + 5), Repeat(y, 9)) >>),
             LAMBDA winning_coords :
        IF winning_coords # None
        THEN [result |-> "Win", coords |-> winning_coords]
        ELSE [result |-> "Ok", coords |-> None])

\* Board::check_for_win_around: vertical, diagonal, horizontal, anti-diagonal
\* windows of 9 cells around (x, y); the first window with a win decides.
check_for_win_around(board, ux, uy) ==
    LET x  == as_i32(ux)
        y  == as_i32(uy)
    IN  With(or_else(<<
                range_contains_win(board, Repeat(x, 9), Range(y - 4, y + 5)),
                range_contains_win(board, Range(x - 4, x + 5), Range(y - 4, y + 5)),
                range_contains_win(board, Range(x - 4, x + 5), Repeat(y, 9)),
                range_contains_win(board, Range(x - 4, x + 5),
                                   Rev(Range(y - 4, y + 5))) >>),
             LAMBDA winning_coords :
        IF winning_coords # None
        THEN [result |-> "Win", coords |-> winning_coords]
        ELSE [result |-> "Ok", coords |-> None])

\* The board with the cell at (x, y) occupied by user.
place(board, user, x, y) ==
    [board EXCEPT !.cells[y * board.width + x + 1] = Occupied(user)]

\* Board::try_place
try_place(board, user, x, y) ==
    With(Board_at(board, as_i32(x), as_i32(y)), LAMBDA cell :
        IF cell = None \/ cell[1] # Empty
        THEN [board |-> board, result |-> "InvalidMove", coords |-> None]
        ELSE With(place(board, user, as_i32(x), as_i32(y)), LAMBDA placed :
             With(check_for_win_around(placed, x, y), LAMBDA w :
                 [board |-> placed, result |-> w.result,
                  coords |-> w.coords])))

\* Board::is_full
is_full(board) ==
    ~ \E i \in 1..Len(board.cells) : board.cells[i] = Empty

\* make_move calling every accepted move that does not win a draw, the
\* board full or not.
make_move_without_is_full(state, user, p_move) ==
    With(try_place(state.board, user, p_move.x, p_move.y), LAMBDA p :
        CASE p.result = "InvalidMove" ->
                [game |-> state, result |-> "InvalidMove"]
          [] p.result = "Ok" ->
                [game |-> [state EXCEPT !.board = p.board], result |-> "Draw"]
          [] p.result = "Win" ->
                [game |-> [state EXCEPT !.board = p.board,
                                        !.winner = Some(<<user, p.coords[1]>>)],
                 result |-> "Win"])

\* make_move
make_move(state, user, p_move) ==
    With(try_place(state.board, user, p_move.x, p_move.y), LAMBDA p :
        CASE p.result = "InvalidMove" ->
                [game |-> state, result |-> "InvalidMove"]
          [] p.result = "Ok" ->
                [game |-> [state EXCEPT !.board = p.board],
                 result |-> IF is_full(p.board) THEN "Draw" ELSE "Ok"]
          [] p.result = "Win" ->
                [game |-> [state EXCEPT !.board = p.board,
                                        !.winner = Some(<<user, p.coords[1]>>)],
                 result |-> "Win"])

\* PlayerTurn { token: TurnToken { user }, state: to_game_state(&board) }
PlayerTurn(user, board) == [token |-> user, state |-> board.cells]

\* advance_player and the PlayerTurn built for the user it yields, if any:
\* the tail of try_start_game, current_player_disconnected and the
\* InvalidMove/InvalidFormat arms of player_moves.
next_turn(game) ==
    With(TurnTracker_advance_player(game.players), LAMBDA a :
        [game |-> [game EXCEPT !.players = a.tt],
         turn |-> IF a.user = None THEN None
                  ELSE Some(PlayerTurn(a.user[1], game.board))])

\* The removal of the mover followed by advance_player, shared by the
\* InvalidMove and InvalidFormat arms of Game::player_moves.
eliminate_mover(game, user, kind) ==
    With(TurnTracker_remove_player(game.players, user), LAMBDA r :
        IF r.panic
        THEN [game |-> game, result |-> kind, turn |-> None, panic |-> TRUE]
        ELSE With(next_turn([game EXCEPT !.players = r.tt]), LAMBDA n :
                 [game |-> n.game, result |-> kind, turn |-> n.turn,
                  panic |-> FALSE]))

\* The Ok arm of Game::player_moves: advance_player().unwrap().
accept_move(game) ==
    With(next_turn(game), LAMBDA n :
        [game |-> n.game, result |-> "Ok", turn |-> n.turn,
         panic |-> n.turn = None])

\* Game::player_moves
player_moves(game, token, player_move) ==
    With(to_player_move(player_move), LAMBDA parsed :
        IF parsed = None
        THEN eliminate_mover(game, token, "InvalidFormat")
        ELSE With(make_move(game, token, parsed[1]), LAMBDA m :
                 CASE m.result = "InvalidMove" ->
                        eliminate_mover(m.game, token, "InvalidMove")
                   [] m.result = "Ok" -> accept_move(m.game)
                   [] OTHER ->
                        [game |-> m.game, result |-> m.result, turn |-> None,
                         panic |-> FALSE]))

\* Game::player_connected
player_connected(game, user) ==
    [game EXCEPT !.players = TurnTracker_add_player(@, user)]

\* Game::player_disconnected
player_disconnected(game, username) ==
    With(TurnTracker_remove_player(game.players, username), LAMBDA r :
        [game |-> [game EXCEPT !.players = r.tt], panic |-> r.panic])

\* Game::current_player_disconnected
current_player_disconnected(game, player_token) ==
    With(TurnTracker_remove_player(game.players, player_token), LAMBDA r :
        IF r.panic
        THEN [game |-> game, turn |-> None, panic |-> TRUE]
        ELSE With(next_turn([game EXCEPT !.players = r.tt]), LAMBDA n :
                 [game |-> n.game, turn |-> n.turn, panic |-> FALSE]))

\* Game::try_start_game
try_start_game(game) == next_turn(game)

\* The GamePtrMaker handed to controller_loop: a five-in-a-row game on a
\* board of one row of five cells, the smallest on which a run of 5 fits.
game_maker(users) == Game_new(5, 1, users)

\* ------------------------------------------------------- player_table.rs

\* druid::Color::rgb8(r, g, b), and Color::GRAY of the druid crate
\* (grey8(128)).
rgb8(r, g, b) == <<r, g, b>>
Color_GRAY == rgb8(128, 128, 128)

\* PaintBucket::new: the palette, nothing taken.
PaintBucket_new ==
    [free_paints |-> <<
        rgb8(0, 0, 0),
        rgb8(128, 128, 128),
        rgb8(0, 0, 128),
        rgb8(255, 215, 180),
        rgb8(128, 128, 0),
        rgb8(170, 255, 195),
        rgb8(128, 0, 0),
        rgb8(255, 250, 200),
        rgb8(170, 110, 40),
        rgb8(220, 190, 255),
        rgb8(0, 128, 128),
        rgb8(250, 190, 212),
        rgb8(210, 245, 60),
        rgb8(240, 50, 230),
        rgb8(70, 240, 240),
        rgb8(145, 30, 180),
        rgb8(245, 130, 48),
        rgb8(0, 130, 200),
        rgb8(255, 225, 25),
        rgb8(60, 180, 75),
        rgb8(230, 25, 75) >>,
     taken_paints |-> << >>]

\* PaintBucket::get without the look at taken_paints: every call pops.
PaintBucket_get_always_pop(bucket, name) ==
    LET free == bucket.free_paints
        c    == IF free = << >> THEN Color_GRAY ELSE free[Len(free)]
    IN  [bucket |->
            [free_paints  |-> IF free = << >> THEN free
                              ELSE SubSeq(free, 1, Len(free) - 1),
             taken_paints |->
                [n \in DOMAIN bucket.taken_paints \cup {name} |->
                    IF n = name THEN c ELSE bucket.taken_paints[n]]],
         color |-> c]

\* PaintBucket::get: the colour taken by the name, or for a new name the
\* last free paint (Vec::pop), gray once none is left; the bucket after the
\* call and the colour returned.
PaintBucket_get(bucket, name) ==
    IF name \in DOMAIN bucket.taken_paints
    THEN [bucket |-> bucket, color |-> bucket.taken_paints[name]]
    ELSE LET free == bucket.free_paints
             c    == IF free = << >> THEN Color_GRAY ELSE free[Len(free)]
         IN  [bucket |->
                 [free_paints  |-> IF free = << >> THEN free
                                   ELSE SubSeq(free, 1, Len(free) - 1),
                  taken_paints |->
                     [n \in DOMAIN bucket.taken_paints \cup {name} |->
                         IF n = name THEN c ELSE bucket.taken_paints[n]]],
              color |-> c]

\* PlayerTable::new (the paint bucket is not part of this view)
PlayerTable_new ==
    [players |-> <<>>, current_index |-> 0, paint_bucket |-> PaintBucket_new]

\* PlayerTable::remove_player leaving current_index where it was.
PlayerTable_remove_player_index_kept(table, name) ==
    [table EXCEPT
       !.players = SelectSeq(table.players, LAMBDA p : p.name # name)]

\* PlayerTable::remove_player
PlayerTable_remove_player(table, name) ==
    LET before == { i \in 1..Len(table.players) :
                      /\ table.players[i].name = name
                      /\ i - 1 < table.current_index }
    IN  [table EXCEPT
           !.players = SelectSeq(table.players, LAMBDA p : p.name # name),
           !.current_index = table.current_index - Cardinality(before)]

\* PlayerTable::add_new_player pushing without the removal before it.
PlayerTable_add_new_player_no_remove(table, name, channel) ==
    LET g == PaintBucket_get(table.paint_bucket, name)
    IN  [table EXCEPT !.players = Append(@, [name |-> name, color |-> g.color,
                                             tx |-> channel]),
                      !.paint_bucket = g.bucket]

\* PlayerTable::add_new_player: drop the entries with the name, then push an
\* entry with the name's colour and the new channel.
PlayerTable_add_new_player(table, name, channel) ==
    LET t == PlayerTable_remove_player(table, name)
        g == PaintBucket_get(t.paint_bucket, name)
    IN  [t EXCEPT !.players = Append(@, [name |-> name, color |-> g.color,
                                         tx |-> channel]),
                  !.paint_bucket = g.bucket]

\* The bool PlayerTable::remove_player hands to the controller: whether an
\* entry of that name was there to remove.
PlayerTable_has(table, name) ==
    \E i \in 1..Len(table.players) : table.players[i].name = name

\* PlayerTable::get: the entry registered under the name, if any.
PlayerTable_get(table, name) ==
    LET hits == { i \in 1..Len(table.players) : table.players[i].name = name }
    IN  IF hits = {} THEN None
        ELSE Some(table.players[CHOOSE i \in hits : \A j \in hits : i <= j])

\* PlayerTable::current: self.players.get(self.current_index)
PlayerTable_current(table) ==
    IF table.current_index < Len(table.players)
    THEN Some(table.players[table.current_index + 1])
    ELSE None

\* PlayerTable::remove_current: Vec::remove panics on an index that is not
\* below the length; the index goes back to 0 when it has left the vector.
PlayerTable_remove_current(table) ==
    IF table.current_index >= Len(table.players)
    THEN [table |-> table, panic |-> TRUE]
    ELSE With([i \in 1..(Len(table.players) - 1) |->
                  IF i <= table.current_index THEN table.players[i]
                  ELSE table.players[i + 1]],
              LAMBDA rest :
             [table |-> [table EXCEPT
                            !.players = rest,
                            !.current_index =
                                IF table.current_index >= Len(rest) THEN 0
                                ELSE table.current_index],
              panic |-> FALSE])

\* PlayerTable::advance_player (the table after it; the entry it returns is
\* current() of that table).
PlayerTable_advance_player(table) ==
    [table EXCEPT !.current_index =
        IF table.current_index + 1 >= Len(table.players) THEN 0
        ELSE table.current_index + 1]

\* ---------------------------------------------------------- controller.rs

\* Durations the settings surface can set for the two pacing delays,
\* in milliseconds.
Delays == {200}

\* enum GameMode
GameMode == {"Practice", "Gating", "Competition"}

\* ControllerInfo::default
ControllerInfo_default ==
    [game_mode |-> "Practice", score |-> <<>>,
     turndelay |-> 200, windelay |-> 500]

\* add_player_win with the count overwritten by 1 instead of incremented.
add_player_win_overwrite(info, name) ==
    [info EXCEPT !.score =
        [n \in (DOMAIN info.score) \cup {name} |->
            IF n = name THEN 1 ELSE info.score[n]]]

\* ControllerInfo::add_player_win
add_player_win(info, name) ==
    [info EXCEPT !.score =
        [n \in (DOMAIN info.score) \cup {name} |->
            IF n = name
            THEN (IF name \in DOMAIN info.score THEN info.score[name] + 1
                  ELSE 1)
            ELSE info.score[n]]]

\* ControllerInfo::reset_scores
reset_scores(info) == [info EXCEPT !.score = <<>>]

VARIABLES
    game,             \* the rule engine instance the controller owns
    p_move_rx,        \* Option: the connection whose one-shot reply channel
                      \* the controller holds the receiver of
    turn_token,       \* Option<TurnToken>: the user named by the held token
    players,          \* the PlayerTable
    controller_info,  \* mode, scores, delays
    pc,               \* "run", "panicked" or "stopped"
    conns,            \* the connection handlers, by connection number
    issued,           \* history: Option, the token the current engine
                      \* instance issued last, until it is passed back
    last_turn,        \* history: Option, the YourTurn delivered last
    eliminated,       \* history: the users whose move the current engine
                      \* instance rejected
    user_pass_db      \* the password of every username that has logged in

vars == <<game, p_move_rx, turn_token, players, controller_info, pc, conns,
          issued, last_turn, eliminated, user_pass_db>>

ctl_vars == <<game, p_move_rx, turn_token, players, controller_info, pc>>

\* What one pass of the loop body works on: the controller's locals, and the
\* record of the engine calls made and the messages delivered in this pass.
Ctx(cs) ==
    [game |-> game, players |-> players, info |-> controller_info,
     conns |-> cs, issued |-> issued, eliminated |-> eliminated,
     calls |-> <<>>, sent |-> <<>>, panic |-> ""]

\* The pass after a panic at the named site; "" is no panic.
Paniced(c, site) == [c EXCEPT !.panic = site]

\* The panic an engine call leaves the pass in: the unwraps on the
\* rotation inside the engine.
EnginePanic(c, panicked) ==
    IF c.panic # "" THEN c.panic
    ELSE IF panicked THEN "engine" ELSE ""

\* The token of an Option<PlayerTurn>, as an Option.
token_of(turn) == IF turn = None THEN None ELSE Some(turn[1].token)

\* The record of one engine call in the pass's log: the operation, the
\* token or name passed, whether that token was the one the engine had
\* outstanding, and the MoveResult ("" where there is none).  `users` is
\* filled in by the caller where a claim needs it: the users handed to
\* game_maker, the rotation current_player_disconnected is called on.
Call(op, token, fresh, result) ==
    [op |-> op, token |-> token, fresh |-> fresh, result |-> result,
     users |-> << >>]

\* The record of one message the controller delivered in the pass.
Sent(c, msg, to, name) ==
    [msg |-> msg, to |-> to, name |-> name, mode |-> c.info.game_mode,
     winner |-> None, eliminated |-> c.eliminated]

\* GameOverReason::Winner(name) and GameOverReason::Draw
GameOverReason_Winner(winner_name) ==
    [msg |-> "GameOver Winner", winner |-> Some(winner_name)]

GameOverReason_Draw == [msg |-> "GameOver Draw", winner |-> None]

\* game.try_start_game() as the controller calls it
call_try_start_game(c) ==
    With(try_start_game(c.game), LAMBDA r :
        [ctx  |-> [c EXCEPT !.game = r.game,
                            !.issued = IF r.turn = None THEN @
                                       ELSE token_of(r.turn),
                            !.calls = Append(@,
                                Call("try_start_game", "", TRUE, ""))],
         turn |-> r.turn])

\* game.current_player_disconnected(token) as the controller calls it
call_current_player_disconnected(c, token) ==
    With(current_player_disconnected(c.game, token), LAMBDA r :
        [ctx  |-> [c EXCEPT !.game = r.game,
                            !.issued = token_of(r.turn),
                            !.panic = EnginePanic(c, r.panic),
                            !.calls = Append(@,
                                [Call("current_player_disconnected", token,
                                      c.issued = Some(token), "")
                                   EXCEPT !.users = c.game.players.players])],
         turn |-> r.turn])

\* turn_given with the token the loop started with returned in place of the
\* one the YourTurn went out for.
turn_given_first_token(c, to, token) ==
    [ctx |-> c, rx |-> Some(to), tok |-> turn_token, delivered |-> TRUE]

\* What a call of your_turn leaves in (p_move_rx, turn_token) when its
\* result is assigned to them.
turn_given(c, to, token) ==
    [ctx |-> c, rx |-> Some(to), tok |-> Some(token), delivered |-> TRUE]

no_turn(c) ==
    [ctx |-> c, rx |-> None, tok |-> None, delivered |-> FALSE]

\* your_turn giving up after the first delivery that fails.
your_turn_single_attempt(c, token) ==
    IF c.info.game_mode = "Gating"
    THEN no_turn(c)
    ELSE With(PlayerTable_get(c.players, token), LAMBDA new_player :
        IF new_player = None
        THEN no_turn(Paniced(c, "players.get"))
        ELSE IF c.conns[new_player[1].tx].rx
        THEN turn_given([c EXCEPT !.sent = Append(@,
                            Sent(c, "YourTurn", new_player[1].tx, token))],
                        new_player[1].tx, token)
        ELSE no_turn(call_current_player_disconnected(c, token).ctx))

\* your_turn: the delivery loop.  The YourTurn and the sender of a new reply
\* channel go to the handler registered under the token's name; when its
\* receiver is gone the engine is asked for the next turn.
RECURSIVE your_turn(_, _)
your_turn(c, token) ==
    IF c.info.game_mode = "Gating"
    THEN no_turn(c)
    ELSE With(PlayerTable_get(c.players, token), LAMBDA new_player :
        IF new_player = None
        THEN no_turn(Paniced(c, "players.get"))
        ELSE IF c.conns[new_player[1].tx].rx
        THEN turn_given([c EXCEPT !.sent = Append(@,
                            Sent(c, "YourTurn", new_player[1].tx, token))],
                        new_player[1].tx, token)
        ELSE With(call_current_player_disconnected(c, token), LAMBDA d :
                 IF d.ctx.panic # "" \/ d.turn = None
                 THEN no_turn(d.ctx)
                 ELSE your_turn(d.ctx, d.turn[1].token)))

\* The second loop of send_to_all: remove_player for each collected name.
RECURSIVE remove_each(_, _)
remove_each(table, names) ==
    IF names = <<>> THEN table
    ELSE remove_each(PlayerTable_remove_player(table, Head(names)), Tail(names))

\* One GameOver(msg) as it arrives at connection `to`.
GameOver(c, msg, to, name) ==
    [Sent(c, msg.msg, to, name) EXCEPT !.winner = msg.winner]

\* send_to_all returning at the first send that fails.
send_to_all_until_failure(c, msg) ==
    LET ps    == c.players.players
        dead  == { i \in 1..Len(ps) : ~c.conns[ps[i].tx].rx }
        upto  == IF dead = {} THEN Len(ps)
                 ELSE (CHOOSE i \in dead : \A j \in dead : i <= j) - 1
    IN  [c EXCEPT
           !.sent = @ \o [i \in 1..upto |->
                            GameOver(c, msg, ps[i].tx, ps[i].name)],
           !.players = IF dead = {} THEN @
                       ELSE PlayerTable_remove_player(@, ps[upto + 1].name)]

\* send_to_all without the removal of the players whose send failed.
send_to_all_no_removal(c, msg) ==
    LET ps    == c.players.players
        ok(p) == c.conns[p.tx].rx
        got   == SelectSeq(ps, ok)
    IN  [c EXCEPT
           !.sent = @ \o [i \in 1..Len(got) |->
                            GameOver(c, msg, got[i].tx, got[i].name)]]

\* send_to_all: GameOver to every registered player, then the players whose
\* send failed are removed from the table.
send_to_all(c, msg) ==
    LET ps    == c.players.players
        ok(p) == c.conns[p.tx].rx
        bad(p) == ~ok(p)
        got   == SelectSeq(ps, ok)
        lost  == SelectSeq(ps, bad)
        disconnected_players == [i \in 1..Len(lost) |-> lost[i].name]
    IN  [c EXCEPT
           !.sent = @ \o [i \in 1..Len(got) |->
                            GameOver(c, msg, got[i].tx, got[i].name)],
           !.players = remove_each(@, disconnected_players)]

\* announce_winner
announce_winner(c, winner_name) ==
    send_to_all(c, GameOverReason_Winner(winner_name))

\* announce_draw
announce_draw(c) == send_to_all(c, GameOverReason_Draw)

\* first_move_new_game
first_move_new_game(c) ==
    With(call_try_start_game(c), LAMBDA t :
        IF t.turn = None THEN no_turn(t.ctx)
        ELSE your_turn(t.ctx, t.turn[1].token))

\* game.player_moves(token, mov) as the controller calls it
call_player_moves(c, token, mov) ==
    With(player_moves(c.game, token, mov), LAMBDA r :
        [ctx    |-> [c EXCEPT !.game = r.game,
                              !.issued = token_of(r.turn),
                              !.eliminated =
                                  IF r.result \in {"InvalidMove",
                                                   "InvalidFormat"}
                                  THEN @ \cup {token} ELSE @,
                              !.panic = EnginePanic(c, r.panic),
                              !.calls = Append(@,
                                  Call("player_moves", token,
                                       c.issued = Some(token), r.result))],
         result |-> r.result,
         turn   |-> r.turn])

\* reject_move with INVALID_MOVE sent in both arms.
reject_move_same_text(c, from, reason, err_rx, maybe_player_turn) ==
    IF ~err_rx
    THEN no_turn(Paniced(c, "move_err_tx.send"))
    ELSE IF maybe_player_turn = None
    THEN no_turn([c EXCEPT !.sent = Append(@,
                     Sent(c, "invalid move", from, c.conns[from].name))])
    ELSE your_turn([c EXCEPT !.sent = Append(@,
                       Sent(c, "invalid move", from, c.conns[from].name))],
                   maybe_player_turn[1].token)

\* The InvalidMove and InvalidFormat arms of react_to_player_move: the
\* rejection goes to the mover's error channel (the unwrap panics when its
\* receiver is gone), then the replacement turn, if any, is dispatched.
reject_move(c, from, reason, err_rx, maybe_player_turn) ==
    IF ~err_rx
    THEN no_turn(Paniced(c, "move_err_tx.send"))
    ELSE IF maybe_player_turn = None
    THEN no_turn([c EXCEPT !.sent = Append(@,
                     Sent(c, reason, from, c.conns[from].name))])
    ELSE your_turn([c EXCEPT !.sent = Append(@,
                       Sent(c, reason, from, c.conns[from].name))],
                   maybe_player_turn[1].token)

\* The names of the registered players, in table order
\* (players.iter().map(player_info_to_user).collect()).
roster(table) == [i \in 1..Len(table.players) |-> table.players[i].name]

\* The PlayerMovesReturn::GameOver arm of Event::Move: a new game for the
\* registered players, and its first move.
new_game(c) ==
    first_move_new_game(
        [c EXCEPT !.game = game_maker(roster(c.players)),
                  !.issued = None,
                  !.eliminated = {},
                  !.calls = Append(@, [Call("game_maker", "", TRUE, "")
                                         EXCEPT !.users = roster(c.players)])])

\* react_to_player_move, and what the Event::Move arm does with its result.
react_to_player_move(c, who_moved, result, turn, from, err_rx) ==
    CASE result = "Ok" -> your_turn(c, turn[1].token)
      [] result = "Draw" -> new_game(announce_draw(c))
      [] result = "Win" ->
            new_game([announce_winner(c, who_moved) EXCEPT
                        !.info = add_player_win(@, who_moved)])
      [] result = "InvalidMove" ->
            reject_move(c, from, "invalid move", err_rx, turn)
      [] result = "InvalidFormat" ->
            reject_move(c, from, "invalid message format", err_rx, turn)

\* A pass that leaves (p_move_rx, turn_token) as they were.
keep_turn(c) ==
    [ctx |-> c, rx |-> p_move_rx, tok |-> turn_token, delivered |-> FALSE]

\* The Event::Move arm of controller_loop.
on_move(c, from, msg) ==
    IF turn_token = None
    THEN keep_turn(Paniced(c, "turn_token.unwrap"))
    ELSE With(call_player_moves(c, turn_token[1], msg.mov), LAMBDA m :
        IF m.ctx.panic # ""
        THEN keep_turn(m.ctx)
        ELSE react_to_player_move(m.ctx, turn_token[1], m.result, m.turn,
                                  from, msg.err_rx))

\* `if let Some(turn) = game.try_start_game()` with the result of your_turn
\* assigned to (p_move_rx, turn_token), as in the ImConnected and GoToMode
\* arms.
start_if_possible(c) ==
    With(call_try_start_game(c), LAMBDA t :
        IF t.turn = None THEN keep_turn(t.ctx)
        ELSE your_turn(t.ctx, t.turn[1].token))

\* on_connected without the start of a game.
on_connected_without_start(c, name, tx) ==
    keep_turn([c EXCEPT !.players = PlayerTable_add_new_player(@, name, tx),
                        !.game = player_connected(@, name),
                        !.calls = Append(@,
                            Call("player_connected", name, TRUE, ""))])

\* on_connected with try_start_game called whether or not a turn is
\* outstanding.
on_connected_always_start(c, name, tx) ==
    start_if_possible(
        [c EXCEPT !.players = PlayerTable_add_new_player(@, name, tx),
                  !.game = player_connected(@, name),
                  !.calls = Append(@,
                      Call("player_connected", name, TRUE, ""))])

\* The ImConnected arm of controller_loop.
on_connected(c, name, tx) ==
    With([c EXCEPT !.players = PlayerTable_add_new_player(@, name, tx),
                   !.game = player_connected(@, name),
                   !.calls = Append(@,
                       Call("player_connected", name, TRUE, ""))],
         LAMBDA c1 :
        IF p_move_rx = None THEN start_if_possible(c1) ELSE keep_turn(c1))

\* holder_disconnected without the arm for a game that the disconnect ended.
holder_disconnected_turn_kept(c, name) ==
    With(call_current_player_disconnected(c, name), LAMBDA d :
        IF d.ctx.panic # "" \/ d.turn = None THEN keep_turn(d.ctx)
        ELSE your_turn(d.ctx, d.turn[1].token))

\* The branch of the ImDisconnected arm for the holder of the token.
holder_disconnected(c, name) ==
    With(call_current_player_disconnected(c, name), LAMBDA d :
        IF d.ctx.panic # "" THEN keep_turn(d.ctx)
        ELSE IF d.turn = None THEN no_turn(d.ctx)
        ELSE your_turn(d.ctx, d.turn[1].token))

\* The branch of the ImDisconnected arm for a player other than the holder.
other_disconnected(c, name) ==
    IF PlayerTable_has(c.players, name)
    THEN With(player_disconnected(c.game, name), LAMBDA g :
             keep_turn([c EXCEPT
                 !.players = PlayerTable_remove_player(@, name),
                 !.game = g.game,
                 !.panic = EnginePanic(c, g.panic),
                 !.calls = Append(@,
                     Call("player_disconnected", name, TRUE, ""))]))
    ELSE keep_turn(c)

\* on_disconnected without the branch for the holder of the token.
on_disconnected_no_holder_branch(c, name) ==
    IF turn_token = None THEN keep_turn(c)
    ELSE other_disconnected(c, name)

\* The ImDisconnected arm of controller_loop.
on_disconnected(c, name) ==
    IF turn_token = None THEN keep_turn(c)
    ELSE IF turn_token[1] = name THEN holder_disconnected(c, name)
    ELSE other_disconnected(c, name)

\* close_gates with p_move_rx left in place.
close_gates_keep_receiver(s) ==
    IF s.ctx.info.game_mode = "Gating" /\ s.ctx.panic = ""
    THEN [s EXCEPT !.ctx.info = reset_scores(@),
                   !.ctx.game = game_maker(<<>>),
                   !.ctx.issued = None,
                   !.ctx.eliminated = {}]
    ELSE s

\* close_gates with the scores reset whatever the new mode is.
close_gates_any_mode(s) ==
    IF s.ctx.panic # "" THEN s
    ELSE IF s.ctx.info.game_mode = "Gating"
    THEN [s EXCEPT !.ctx.info = reset_scores(@),
                   !.ctx.game = game_maker(<<>>),
                   !.ctx.issued = None,
                   !.ctx.eliminated = {},
                   !.rx = None]
    ELSE [s EXCEPT !.ctx.info = reset_scores(@)]

\* The tail of the GoToMode arm: in Gating the scores are reset, the game is
\* replaced by one without players and p_move_rx is dropped.
close_gates(s) ==
    IF s.ctx.info.game_mode = "Gating" /\ s.ctx.panic = ""
    THEN [s EXCEPT !.ctx.info = reset_scores(@),
                   !.ctx.game = game_maker(<<>>),
                   !.ctx.issued = None,
                   !.ctx.eliminated = {},
                   !.rx = None]
    ELSE s

\* The GoToMode arm of controller_loop.
on_go_to_mode(c, new_mode) ==
    IF c.info.game_mode = "Gating" /\ new_mode # "Gating"
    THEN close_gates(start_if_possible([c EXCEPT !.info.game_mode = new_mode]))
    ELSE close_gates(keep_turn([c EXCEPT !.info.game_mode = new_mode]))

\* ------------------------------------------------- the connection handlers

\* A connection handler (process_user_connection) as the controller sees
\* it: the name it logged in with, whether the receiver of its outbound
\* channel is alive, the state of the one-shot reply sender it was handed
\* last ("none", "held", "sent" with msg in flight, "dropped" unsent), and
\* whether it has sent its ImDisconnected.
NewConn(name) ==
    [name |-> name, rx |-> TRUE, mov_tx |-> "none", msg |-> None,
     disc |-> FALSE]

\* The handler ends: its outbound receiver, the reply sender it holds and
\* the error receiver of a move in flight are dropped.
Exited(cs, c) ==
    [cs EXCEPT ![c].rx = FALSE,
               ![c].mov_tx = IF @ = "held"
                             THEN (IF p_move_rx = Some(c) THEN "dropped"
                                   ELSE "none")
                             ELSE @,
               ![c].msg = IF @ = None THEN None
                          ELSE Some([@[1] EXCEPT !.err_rx = FALSE])]

\* The reply channels after a pass of the loop: the receiver the controller
\* held is dropped when p_move_rx is overwritten (a message in flight is
\* lost with it, an unsent sender stays with its handler), and a delivered
\* YourTurn hands its handler a fresh sender.  A handler that still holds
\* the sender of a discarded turn when the new one arrives is shown holding
\* the new one: its send on the old one fails and changes nothing.
Settle(cs, old_rx, new_rx, delivered) ==
    LET cs1 == IF old_rx # None /\ (new_rx # old_rx \/ delivered)
               THEN [cs EXCEPT ![old_rx[1]].mov_tx =
                                   IF @ = "held" THEN "held" ELSE "none",
                               ![old_rx[1]].msg = None]
               ELSE cs
    IN  IF delivered
        THEN [cs1 EXCEPT ![new_rx[1]].mov_tx = "held",
                         ![new_rx[1]].msg = None]
        ELSE cs1

\* The YourTurn delivered last, once the messages of a pass are out: the
\* connection it went to and the token it was for.
LastYourTurn(sent) ==
    LET turns == { i \in 1..Len(sent) : sent[i].msg = "YourTurn" }
    IN  IF turns = {} THEN last_turn
        ELSE LET i == CHOOSE j \in turns : \A k \in turns : k <= j
             IN  Some([to |-> sent[i].to, token |-> sent[i].name])

\* The end of a pass of the loop body: the locals take their new values, or
\* the task is gone when the pass panicked.
Finish(h, cs) ==
    IF h.ctx.panic # ""
    THEN /\ pc' = "panicked"
         /\ conns' = cs
         /\ UNCHANGED <<game, p_move_rx, turn_token, players,
                        controller_info, issued, last_turn, eliminated,
                        user_pass_db>>
    ELSE /\ pc' = pc
         /\ game' = h.ctx.game
         /\ players' = h.ctx.players
         /\ controller_info' = h.ctx.info
         /\ p_move_rx' = h.rx
         /\ turn_token' = h.tok
         /\ issued' = h.ctx.issued
         /\ eliminated' = h.ctx.eliminated
         /\ UNCHANGED user_pass_db
         /\ last_turn' = LastYourTurn(h.ctx.sent)
         /\ conns' = Settle(cs, p_move_rx, h.rx, h.delivered)

Init ==
    /\ game = game_maker(<<>>)
    /\ p_move_rx = None
    /\ turn_token = None
    /\ players = PlayerTable_new
    /\ controller_info = ControllerInfo_default
    /\ pc = "run"
    /\ conns = <<>>
    /\ issued = None
    /\ eliminated = {}
    /\ last_turn = None
    /\ user_pass_db = << >>

\* The pass of the loop body for ImConnected(name, tx) of a new connection.
ConnectPass(name) ==
    LET cs == Append(conns, NewConn(name))
    IN  on_connected(Ctx(cs), name, Len(cs))

\* A client logs in as name: its handler sends ImConnected(name, tx) and the
\* controller handles it.
Connect(name) ==
    /\ pc = "run"
    /\ Len(conns) < MaxConns
    /\ With(ConnectPass(name), LAMBDA h :
            Finish(h, Append(conns, NewConn(name))))

\* The connections as connection c sends ImDisconnected and ends.
Leaving(c) == [Exited(conns, c) EXCEPT ![c].disc = TRUE]

\* The pass of the loop body for the ImDisconnected of connection c.
DisconnectPass(c) == on_disconnected(Ctx(Leaving(c)), conns[c].name)

\* The handler of connection c sends ImDisconnected(its name) and ends; the
\* controller handles the message.
Disconnect(c) ==
    /\ pc = "run"
    /\ ~conns[c].disc
    /\ With(DisconnectPass(c), LAMBDA h : Finish(h, Leaving(c)))

\* The handler of connection c ends without a word to the controller.
HandlerExit(c) ==
    /\ pc = "run"
    /\ conns[c].rx
    /\ conns' = Exited(conns, c)
    /\ UNCHANGED <<game, p_move_rx, turn_token, players, controller_info,
                   pc, issued, last_turn, eliminated,
                   user_pass_db>>

\* The lines the client of the model answers a YourTurn with: the leftmost
\* empty cell of the board it was sent, cell (0,0), a cell right of the
\* board, or a line that is no move.
ClientMoves ==
    LET cells == game.board.cells
        free  == { i \in 1..Len(cells) : cells[i] = Empty }
        first == IF free = {} THEN 0
                 ELSE (CHOOSE i \in free : \A j \in free : i <= j) - 1
    IN  { p \in MovePayloads :
            p.fmt = "other" \/ p.x \in {0, first, game.board.width} }

\* The handler of connection c sends its client's line on the reply sender
\* it holds; the send fails when the controller dropped the receiver.
SendMove(c, mov) ==
    /\ pc = "run"
    /\ conns[c].mov_tx = "held"
    /\ conns' = IF p_move_rx = Some(c)
                THEN [conns EXCEPT ![c].mov_tx = "sent",
                                   ![c].msg = Some([mov |-> mov,
                                                    err_rx |-> TRUE,
                                                    turn |-> last_turn])]
                ELSE [conns EXCEPT ![c].mov_tx = "none"]
    /\ UNCHANGED <<game, p_move_rx, turn_token, players, controller_info,
                   pc, issued, last_turn, eliminated,
                   user_pass_db>>

\* The pass of the loop body for ControllerMsg::GoToMode.
GoToModePass(new_mode) == on_go_to_mode(Ctx(conns), new_mode)

\* ControllerMsg::GoToMode
GoToMode(new_mode) ==
    /\ pc = "run"
    /\ With(GoToModePass(new_mode), LAMBDA h : Finish(h, conns))

\* The pass of the loop body for ControllerMsg::ResetGame: an empty arm.
ResetGamePass == keep_turn(Ctx(conns))

\* ControllerMsg::ResetGame
ResetGame ==
    /\ pc = "run"
    /\ Finish(ResetGamePass, conns)

\* The pass of the loop body for ControllerMsg::SetTurnDelay.
SetTurnDelayPass(delay) ==
    keep_turn([Ctx(conns) EXCEPT !.info.turndelay = delay])

\* ControllerMsg::SetTurnDelay
SetTurnDelay(delay) ==
    /\ pc = "run"
    /\ Finish(SetTurnDelayPass(delay), conns)

\* The pass of the loop body for ControllerMsg::SetWinDelay.
SetWinDelayPass(delay) ==
    keep_turn([Ctx(conns) EXCEPT !.info.windelay = delay])

\* ControllerMsg::SetWinDelay
SetWinDelay(delay) ==
    /\ pc = "run"
    /\ Finish(SetWinDelayPass(delay), conns)

\* The select of controller_loop yields Event::Move: the receiver in
\* p_move_rx holds a message.
MoveReady ==
    /\ pc = "run"
    /\ p_move_rx # None
    /\ conns[p_move_rx[1]].mov_tx = "sent"

\* The connections once the message in flight was taken from its channel.
Taken ==
    [conns EXCEPT ![p_move_rx[1]].mov_tx = "none", ![p_move_rx[1]].msg = None]

\* The pass of the loop body for that message.
MovePass == on_move(Ctx(Taken), p_move_rx[1], conns[p_move_rx[1]].msg[1])

\* The pass keeps every win count within the bound of the model.
WithinMaxScore(h) ==
    \A n \in DOMAIN h.ctx.info.score : h.ctx.info.score[n] <= MaxScore

\* Event::Move
Move ==
    /\ MoveReady
    /\ With(MovePass, LAMBDA h : WithinMaxScore(h) /\ Finish(h, Taken))

\* PlayerMoveDropped with the handling that the source keeps commented out:
\* the holder is taken out of the rotation as the sender is found dropped.
PlayerMoveDropped_removes_holder ==
    /\ pc = "run"
    /\ p_move_rx # None
    /\ conns[p_move_rx[1]].mov_tx = "dropped"
    /\ Finish(holder_disconnected(Ctx(conns), turn_token[1]), conns)

\* Event::PlayerMoveDropped: the receiver in p_move_rx reports that its
\* sender was dropped.
PlayerMoveDropped ==
    /\ pc = "run"
    /\ p_move_rx # None
    /\ conns[p_move_rx[1]].mov_tx = "dropped"
    /\ Finish(keep_turn(Ctx(conns)), conns)

\* from_player_rx.recv() yields None: every sender of the control channel
\* is gone.
ControlChannelClosed ==
    /\ pc = "run"
    /\ conns # <<>>
    /\ \A c \in 1..Len(conns) : ~conns[c].rx
    /\ pc' = "stopped"
    /\ UNCHANGED <<game, p_move_rx, turn_token, players, controller_info,
                   conns, issued, last_turn, eliminated,
                   user_pass_db>>

Next ==
    \/ \E name \in Names : Connect(name)
    \/ \E c \in 1..Len(conns) : Disconnect(c)
    \/ \E c \in 1..Len(conns) : HandlerExit(c)
    \/ \E c \in 1..Len(conns) : \E mov \in ClientMoves : SendMove(c, mov)
    \/ \E new_mode \in GameMode : GoToMode(new_mode)
    \/ ResetGame
    \/ \E delay \in Delays : SetTurnDelay(delay)
    \/ \E delay \in Delays : SetWinDelay(delay)
    \/ Move
    \/ PlayerMoveDropped
    \/ ControlChannelClosed

Spec == Init /\ [][Next]_vars

\* ------------------------------------------- logging in again during a game

\* The connections of the runs in which users log in again while their
\* earlier connection is still open.
MaxLogins == 3

\* A client logs in as name, whether or not a connection under that name
\* exists (authorize accepts every login with the stored password).
Login(name) ==
    /\ pc = "run"
    /\ Len(conns) < MaxLogins
    /\ With(ConnectPass(name), LAMBDA h :
            Finish(h, Append(conns, NewConn(name))))

\* SendMove by clients that send a line the engine rejects only while
\* another user is in the rotation, so that a rejection never ends the game.
SendMoveInCompany(c, mov) ==
    /\ \/ \E j \in 1..Len(game.players.players) :
              game.players.players[j] # conns[c].name
       \/ /\ mov.fmt = "move"
          /\ Board_at(game.board, mov.x, mov.y) = Some(Empty)
    /\ SendMove(c, mov)

NextRejoin ==
    \/ \E name \in Names : Login(name)
    \/ \E c \in 1..Len(conns) : \E mov \in ClientMoves :
          SendMoveInCompany(c, mov)
    \/ Move

\* The runs of logins and moves alone: no connection ends, the mode stays
\* Practice.
SpecRejoin == Init /\ [][NextRejoin]_vars

\* ------------------------------------------------------------------ claims

\* The passes of the loop body that the events enabled in this state make
\* the controller perform, one set per kind of event.
ConnectPasses ==
    IF pc = "run" /\ Len(conns) < MaxConns
    THEN { ConnectPass(name) : name \in Names }
    ELSE {}

DisconnectPasses ==
    IF pc = "run"
    THEN { DisconnectPass(c) : c \in { d \in 1..Len(conns) : ~conns[d].disc } }
    ELSE {}

GoToModePasses ==
    IF pc = "run" THEN { GoToModePass(new_mode) : new_mode \in GameMode }
    ELSE {}

MovePasses ==
    IF MoveReady THEN { h \in {MovePass} : WithinMaxScore(h) } ELSE {}

Passes == ConnectPasses \cup DisconnectPasses \cup GoToModePasses \cup MovePasses

\* C1: whenever the controller waits for its next event, the move-reply
\* receiver is present if and only if a turn token is held.
C1_ReceiverIffToken ==
    pc = "run" => ((p_move_rx = None) <=> (turn_token = None))

\* C2: no sequence of player events, mode changes and delay tunings makes the
\* controller abort.
C2_NeverAborts == pc # "panicked"

\* C3: every token passed to player_moves or current_player_disconnected is
\* the token the current engine instance issued last and has not been handed
\* back before.
C3_TokensFresh ==
    \A h \in Passes : \A i \in DOMAIN h.ctx.calls :
        h.ctx.calls[i].op \in {"player_moves", "current_player_disconnected"}
            => h.ctx.calls[i].fresh

\* The call of player_moves a pass for Event::Move opens with, and its result.
MovedWith(h) ==
    IF h.ctx.calls # <<>> /\ h.ctx.calls[1].op = "player_moves"
    THEN Some(h.ctx.calls[1])
    ELSE None

IsWin(h) == MovedWith(h) # None /\ MovedWith(h)[1].result = "Win"

\* The win count of a name in a score table: 0 for a name without entry.
ScoreOf(score, n) == IF n \in DOMAIN score THEN score[n] ELSE 0

\* C4: whenever a turn is outstanding, exactly one token is outstanding (the
\* token the controller holds is the one the engine has out) and its user is
\* in the registry; your_turn never looks up a name that is not registered.
C4_HolderRegistered ==
    /\ (pc = "run" /\ p_move_rx # None) =>
          /\ turn_token # None
          /\ issued = turn_token
          /\ PlayerTable_has(players, turn_token[1])
    /\ \A h \in Passes :
          /\ h.ctx.panic # "players.get"
          /\ \A i \in DOMAIN h.ctx.sent :
                h.ctx.sent[i].msg = "YourTurn" =>
                    PlayerTable_has(h.ctx.players, h.ctx.sent[i].name)

\* A turn is outstanding for the second of two registered players.
C4_Witness ==
    /\ pc = "run"
    /\ p_move_rx # None
    /\ Len(players.players) = 2
    /\ turn_token = Some(players.players[2].name)

\* C5: every call of player_moves carries the token of the YourTurn delivered
\* last and a payload sent on the reply channel made for that YourTurn.
C5_MoveFromLastTurn ==
    MoveReady =>
        /\ last_turn # None
        /\ p_move_rx = Some(last_turn[1].to)
        /\ conns[p_move_rx[1]].msg[1].turn = last_turn
        /\ \A h \in {MovePass} :
              /\ MovedWith(h) # None
              /\ MovedWith(h)[1].token = last_turn[1].token
              /\ \A i \in DOMAIN h.ctx.calls :
                    h.ctx.calls[i].op = "player_moves" => i = 1

\* A move of the second connection is ready while the first connection still
\* holds the reply sender of a discarded turn.
C5_Witness ==
    /\ MoveReady
    /\ p_move_rx = Some(2)
    /\ conns[1].mov_tx = "held"

\* C6: while the mode is Gating no move-reply receiver is outstanding and no
\* pass of the loop delivers a YourTurn.
C6_NoTurnWhileGating ==
    /\ controller_info.game_mode = "Gating" => p_move_rx = None
    /\ \A h \in Passes : \A i \in DOMAIN h.ctx.sent :
          h.ctx.sent[i].msg = "YourTurn" => h.ctx.sent[i].mode # "Gating"

\* In Gating, with a player who connected during Gating in the rotation and
\* one more connection to come.
C6_Witness ==
    /\ pc = "run"
    /\ controller_info.game_mode = "Gating"
    /\ game.players.players # <<>>
    /\ ConnectPasses # {}

\* C7: when GoToMode(Gating) is processed while a turn is outstanding, the
\* turn (receiver and token) is discarded and the score table is empty, and
\* in Gating no move is in flight to the controller.
C7_GatingDiscardsTurn ==
    /\ (pc = "run" /\ p_move_rx # None) =>
          \A h \in {GoToModePass("Gating")} :
              /\ h.rx = None
              /\ h.tok = None
              /\ h.ctx.info.score = <<>>
    /\ controller_info.game_mode = "Gating" =>
          /\ ~MoveReady
          /\ \A c \in 1..Len(conns) : conns[c].mov_tx # "sent"

\* A registered player whose outbound channel is alive.
LivePlayer ==
    \E i \in 1..Len(players.players) : conns[players.players[i].tx].rx

\* C8: when the mode goes from Gating to Practice or Competition while a
\* player with a live outbound channel is registered, try_start_game is
\* called on a rotation that holds the registered players and a turn is
\* outstanding afterwards.
C8_LeavingGatingStarts ==
    (pc = "run" /\ controller_info.game_mode = "Gating" /\ LivePlayer) =>
        \A h \in { GoToModePass(m) : m \in GameMode \ {"Gating"} } :
            /\ \E i \in DOMAIN h.ctx.calls :
                  h.ctx.calls[i].op = "try_start_game"
            /\ \A i \in 1..Len(players.players) :
                  \E j \in 1..Len(game.players.players) :
                      game.players.players[j] = players.players[i].name
            /\ h.rx # None
            /\ h.tok # None

\* C9: when player_moves returns Win, the score of the mover goes up by one
\* (from zero when the mover has no entry) and no other score changes.
C9_WinAddsOne ==
    \A h \in MovePasses :
        IsWin(h) =>
            /\ DOMAIN h.ctx.info.score = DOMAIN controller_info.score
                                            \cup {turn_token[1]}
            /\ \A n \in DOMAIN h.ctx.info.score :
                  h.ctx.info.score[n] =
                      ScoreOf(controller_info.score, n)
                          + (IF n = turn_token[1] THEN 1 ELSE 0)

\* A winning move is ready for a player who has a win already, while another
\* player has one too.
C9_Witness ==
    /\ \E h \in MovePasses : IsWin(h)
    /\ ScoreOf(controller_info.score, turn_token[1]) = 1
    /\ \E n \in DOMAIN controller_info.score :
          n # turn_token[1] /\ controller_info.score[n] = 1

\* C10: a Win in Practice mode leaves the score table unchanged.
C10_PracticeWinNotCounted ==
    \A h \in MovePasses :
        (IsWin(h) /\ controller_info.game_mode = "Practice") =>
            h.ctx.info.score = controller_info.score

\* The passes for the delay tunings and ResetGame enabled in this state.
TuningPasses ==
    IF pc = "run"
    THEN { SetTurnDelayPass(delay) : delay \in Delays }
            \cup { SetWinDelayPass(delay) : delay \in Delays }
            \cup { ResetGamePass }
    ELSE {}

\* The score table with one more win for name n.
PlusOne(score, n) ==
    [m \in DOMAIN score \cup {n} |->
        ScoreOf(score, m) + (IF m = n THEN 1 ELSE 0)]

\* C11: the score table changes in two ways only: a Win adds one to the
\* mover's count and a mode change to Gating clears it.  Connect, Disconnect,
\* Draw, rejected moves, delay tunings and the other mode changes leave every
\* score as it was.
C11_ScoresChangeOnlyByWinOrGating ==
    /\ \A h \in ConnectPasses \cup DisconnectPasses \cup TuningPasses :
          h.ctx.info.score = controller_info.score
    /\ \A new_mode \in GameMode : \A h \in GoToModePasses :
          h.ctx.info.game_mode = new_mode =>
              h.ctx.info.score = IF new_mode = "Gating" /\ h.ctx.panic = ""
                                 THEN << >>
                                 ELSE controller_info.score
    /\ \A h \in MovePasses :
          h.ctx.info.score = IF IsWin(h)
                             THEN PlusOne(controller_info.score, turn_token[1])
                             ELSE controller_info.score

\* With a win on the table, a move that ends the game in a draw is ready and
\* a mode change can be made.
C11_Witness ==
    /\ controller_info.score # << >>
    /\ \E h \in MovePasses :
          MovedWith(h) # None /\ MovedWith(h)[1].result = "Draw"
    /\ GoToModePasses # {}

\* The Event::Move passes that end a game: player_moves returned Win or Draw.
GameOverPasses ==
    { h \in MovePasses :
        MovedWith(h) # None /\ MovedWith(h)[1].result \in {"Win", "Draw"} }

\* The positions of the GameOver messages among the messages of a pass.
GameOvers(sent) ==
    { i \in DOMAIN sent : sent[i].msg \in {"GameOver Winner", "GameOver Draw"} }

\* C12: when a game ends in Win or Draw, every registered player whose
\* outbound channel is alive is sent exactly one GameOver, Winner with the
\* name of the mover for a Win and Draw for a Draw, nobody else is sent one,
\* and each of them goes out before any YourTurn of the next game.
C12_GameOverToAllBeforeNextTurn ==
    \A h \in GameOverPasses :
        LET sent   == h.ctx.sent
            mover  == conns[p_move_rx[1]].name
            reason == IF IsWin(h) THEN GameOverReason_Winner(mover)
                      ELSE GameOverReason_Draw
            live   == { players.players[p].tx : p \in
                          { q \in 1..Len(players.players) :
                              conns[players.players[q].tx].rx } }
        IN  /\ \A to \in live :
                  Cardinality({ i \in GameOvers(sent) : sent[i].to = to }) = 1
            /\ \A i \in GameOvers(sent) :
                  /\ sent[i].to \in live
                  /\ sent[i].msg = reason.msg
                  /\ sent[i].winner = reason.winner
            /\ \A i \in GameOvers(sent) : \A j \in DOMAIN sent :
                  sent[j].msg = "YourTurn" => i < j

\* A winning move is ready while the first of two registered players has lost
\* its outbound channel and the second has not, and the pass sends the
\* YourTurn of the next game.
C12_Witness ==
    /\ \E h \in GameOverPasses :
          IsWin(h) /\ \E j \in DOMAIN h.ctx.sent : h.ctx.sent[j].msg = "YourTurn"
    /\ Len(players.players) = 2
    /\ ~conns[players.players[1].tx].rx
    /\ conns[players.players[2].tx].rx

\* The registered players whose outbound channel is alive, in table order.
LiveRegistered ==
    LET alive(p) == conns[p.tx].rx
    IN  SelectSeq(players.players, alive)

\* No turn is outstanding and the rotation of the engine is empty.
Idle == pc = "run" /\ p_move_rx = None /\ game.players.players = << >>

\* C13: after a Win or Draw the engine is replaced by one whose roster is the
\* registry without the players whose GameOver could not be sent, then
\* try_start_game is called; a turn it yields is dispatched, and when it
\* yields none no turn is outstanding until a Connect makes the controller
\* call try_start_game again.
C13_NewGameForPrunedRegistry ==
    /\ \A h \in GameOverPasses :
          LET calls == h.ctx.calls
              made  == { i \in DOMAIN calls : calls[i].op = "game_maker" }
          IN  /\ h.ctx.panic = ""
              /\ h.ctx.players.players = LiveRegistered
              /\ made = {2}
              /\ calls[2].users = roster([players |-> LiveRegistered])
              /\ Len(calls) >= 3 /\ calls[3].op = "try_start_game"
              /\ IF LiveRegistered = << >>
                 THEN /\ h.rx = None /\ h.tok = None
                      /\ h.ctx.game.players.players = << >>
                 ELSE /\ h.rx # None /\ h.tok # None
                      /\ h.ctx.issued = h.tok
                      /\ h.ctx.sent[Len(h.ctx.sent)].msg = "YourTurn"
                      /\ h.ctx.sent[Len(h.ctx.sent)].to = h.rx[1]
                      /\ h.ctx.sent[Len(h.ctx.sent)].name = h.tok[1]
    /\ Idle =>
          /\ \A h \in DisconnectPasses \cup GoToModePasses \cup TuningPasses :
                /\ h.rx = None
                /\ h.ctx.game.players.players = << >>
          /\ \A h \in ConnectPasses :
                \E i \in DOMAIN h.ctx.calls :
                    h.ctx.calls[i].op = "try_start_game"

\* A game ends while a registered player has lost its outbound channel and
\* another has not, and the next game starts.
C13_Witness ==
    \E h \in GameOverPasses :
        /\ Len(LiveRegistered) = 1
        /\ Len(players.players) = 2
        /\ h.rx # None

\* A game ends with no registered player left to play the next one.
C13_WitnessNoTurn ==
    \E h \in GameOverPasses : h.rx = None

\* The positions of the rejections among the messages of a pass.
Rejections(sent) ==
    { i \in DOMAIN sent :
        sent[i].msg \in {"invalid move", "invalid message format"} }

\* The payload names an empty cell of the board.
Legal(p_move) ==
    /\ p_move.x \in 0..(game.board.width - 1)
    /\ p_move.y \in 0..(game.board.height - 1)
    /\ game.board.cells[p_move.y * game.board.width + p_move.x + 1] = Empty

\* What a payload must be answered with: the result of player_moves and the
\* text of the rejection, "" for a move that is placed.
Verdict(mov) ==
    IF mov.fmt # "move"
    THEN [result |-> {"InvalidFormat"}, text |-> "invalid message format"]
    ELSE IF ~Legal(mov)
    THEN [result |-> {"InvalidMove"}, text |-> "invalid move"]
    ELSE [result |-> {"Ok", "Win", "Draw"}, text |-> ""]

C14_WitnessOccupied ==
    /\ MoveReady
    /\ conns[p_move_rx[1]].msg[1].mov.fmt = "move"
    /\ conns[p_move_rx[1]].msg[1].mov.x = 0
    /\ conns[p_move_rx[1]].msg[1].err_rx
    /\ game.board.cells[1] # Empty

\* The Event::Move passes whose move the engine rejects.
InvalidPasses ==
    { h \in MovePasses :
        MovedWith(h) # None
          /\ MovedWith(h)[1].result \in {"InvalidMove", "InvalidFormat"} }

\* User n is in the rotation of engine g.
InRotation(g, n) ==
    \E j \in 1..Len(g.players.players) : g.players.players[j] = n

\* C15: a player whose move is rejected is removed from the rotation of that
\* game, the next player of the rotation, if any, is offered the turn, and
\* until the game has ended no turn is outstanding for a player whose move
\* was rejected in it, whatever events follow.
C15_EliminatedStaysOut ==
    /\ \A h \in InvalidPasses :
          /\ ~InRotation(h.ctx.game, turn_token[1])
          /\ h.ctx.panic = "" =>
                IF h.ctx.game.players.players = << >>
                THEN h.rx = None /\ h.tok = None
                ELSE /\ h.rx # None /\ h.tok # None
                     /\ InRotation(h.ctx.game, h.tok[1])
                     /\ h.ctx.sent[Len(h.ctx.sent)].msg = "YourTurn"
                     /\ h.ctx.sent[Len(h.ctx.sent)].name = h.tok[1]
    /\ (pc = "run" /\ p_move_rx # None /\ turn_token # None) =>
          turn_token[1] \notin eliminated

\* C16: the rejection is delivered on a best-effort basis: when the error
\* channel of the rejected move was dropped already, the controller ignores
\* the failed send and goes on, with the replacement turn dispatched when
\* the rotation has a player left and no turn outstanding otherwise.
C16_RejectionBestEffort ==
    \A h \in InvalidPasses :
        ~conns[p_move_rx[1]].msg[1].err_rx =>
            /\ h.ctx.panic = ""
            /\ IF h.ctx.game.players.players = << >>
               THEN h.rx = None /\ h.tok = None
               ELSE h.rx # None /\ h.tok # None

\* The Event::Move passes in which player_moves returns InvalidMove without
\* a replacement turn.
LastPlayerRejected ==
    { h \in InvalidPasses :
        /\ MovedWith(h)[1].result = "InvalidMove"
        /\ h.ctx.game.players.players = << >>
        /\ h.ctx.panic = "" }

\* C17: when player_moves returns InvalidMove and no replacement turn, the
\* controller replaces the engine by a new one, so that a later Connect
\* starts a game on an empty board.
C17_ResetWhenNobodyLeft ==
    \A h \in LastPlayerRejected :
        /\ \E i \in DOMAIN h.ctx.calls : h.ctx.calls[i].op = "game_maker"
        /\ h.ctx.game.board = game_maker(<< >>).board
        /\ h.ctx.eliminated = {}

\* The connections whose handler can still send ImDisconnected.
Connected == { c \in 1..Len(conns) : pc = "run" /\ ~conns[c].disc }

\* C18: once ImDisconnected(name) is handled, the registry has no entry for
\* name, whether name held the turn, another player did, or no turn was
\* outstanding.
C18_DisconnectedNotRegistered ==
    \A c \in Connected : \A h \in {DisconnectPass(c)} :
        h.ctx.panic = "" => ~PlayerTable_has(h.ctx.players, conns[c].name)

\* The connections whose ImDisconnected would name a registered player other
\* than the holder of the outstanding turn.
OthersConnected ==
    { c \in Connected :
        /\ p_move_rx # None
        /\ turn_token # None
        /\ turn_token[1] # conns[c].name
        /\ PlayerTable_has(players, conns[c].name) }

\* C19: ImDisconnected(name) for a registered player who does not hold the
\* token removes name from the registry and from the rotation of the engine
\* and leaves the outstanding turn as it is: same token, same reply receiver.
C19_OtherDisconnectKeepsTurn ==
    \A c \in OthersConnected : \A h \in {DisconnectPass(c)} :
        /\ h.ctx.panic = ""
        /\ ~PlayerTable_has(h.ctx.players, conns[c].name)
        /\ ~InRotation(h.ctx.game, conns[c].name)
        /\ h.rx = p_move_rx
        /\ h.tok = turn_token
        /\ ~h.delivered

\* The connections whose ImDisconnected would name the holder of the
\* outstanding turn.
HoldersConnected ==
    { c \in Connected :
        p_move_rx # None /\ turn_token = Some(conns[c].name) }

\* C20: when ImDisconnected(name) is handled while name holds the outstanding
\* turn, current_player_disconnected is called with that token and name
\* holds the turn no longer: afterwards a turn is outstanding for another
\* player of the rotation, or none is.
C20_HolderDisconnectPassesTurnOn ==
    \A c \in HoldersConnected : \A h \in {DisconnectPass(c)} :
        /\ h.ctx.panic = ""
        /\ h.ctx.calls # << >>
        /\ h.ctx.calls[1].op = "current_player_disconnected"
        /\ h.ctx.calls[1].token = conns[c].name
        /\ h.ctx.calls[1].fresh
        /\ \/ h.rx = None /\ h.tok = None
           \/ /\ h.rx # None /\ h.tok # None
              /\ h.delivered
              /\ h.tok[1] # conns[c].name
              /\ InRotation(h.ctx.game, h.tok[1])

\* The holder of the turn can disconnect while the rotation holds another
\* player, to whom the turn then goes.
C20_Witness ==
    /\ \E c \in HoldersConnected :
          DisconnectPass(c).rx \notin {None, p_move_rx}
    /\ \E n \in Names : n # turn_token[1] /\ InRotation(game, n)

\* The holder of the turn, alone in the rotation, can disconnect.
C20_WitnessAlone ==
    /\ HoldersConnected # {}
    /\ game.players.players = <<turn_token[1]>>

\* The holders of the outstanding turn who are alone in the rotation.
LoneHoldersConnected ==
    { c \in HoldersConnected : game.players.players = <<conns[c].name>> }

\* C21: when the only player holds the turn and disconnects before replying,
\* no turn is outstanding afterwards; and while none is outstanding and the
\* rotation is empty, a Connect (under the same name or another) makes the
\* controller call try_start_game and, outside Gating, the player is issued
\* the turn on the channel of the new connection.
C21_LonePlayerReturns ==
    /\ \A c \in LoneHoldersConnected : \A h \in {DisconnectPass(c)} :
          /\ h.ctx.panic = ""
          /\ h.rx = None /\ h.tok = None
          /\ h.ctx.game.players.players = << >>
          /\ \A i \in DOMAIN h.ctx.sent : h.ctx.sent[i].msg # "YourTurn"
    /\ Idle =>
          \A name \in Names : \A h \in { g \in ConnectPasses :
                                          g = ConnectPass(name) } :
              /\ h.ctx.panic = ""
              /\ \E i \in DOMAIN h.ctx.calls :
                    h.ctx.calls[i].op = "try_start_game"
              /\ controller_info.game_mode # "Gating" =>
                    /\ h.rx = Some(Len(conns) + 1)
                    /\ h.tok = Some(name)
                    /\ h.delivered
                    /\ h.ctx.sent = <<Sent(h.ctx, "YourTurn",
                                           Len(conns) + 1, name)>>

\* No turn is outstanding after the only player, still registered, has sent
\* its ImDisconnected, and a connection can log in under its name.
C21_Witness ==
    /\ Idle
    /\ controller_info.game_mode # "Gating"
    /\ turn_token = None
    /\ ConnectPasses # {}
    /\ Len(players.players) = 1
    /\ conns[players.players[1].tx].disc

\* C22: Connect(name, channel) always registers the player under the new
\* channel and notifies the engine; try_start_game is called exactly when no
\* turn is outstanding, and an outstanding turn is left as it is: same
\* token, same reply receiver, nothing sent.
C22_ConnectKeepsOutstandingTurn ==
    \A name \in Names : \A h \in { g \in ConnectPasses :
                                    g = ConnectPass(name) } :
        /\ PlayerTable_get(h.ctx.players, name) # None
        /\ PlayerTable_get(h.ctx.players, name)[1].name = name
        /\ PlayerTable_get(h.ctx.players, name)[1].tx = Len(conns) + 1
        /\ h.ctx.calls # << >>
        /\ h.ctx.calls[1].op = "player_connected"
        /\ h.ctx.calls[1].token = name
        /\ (\E i \in DOMAIN h.ctx.calls : h.ctx.calls[i].op = "try_start_game")
              <=> p_move_rx = None
        /\ p_move_rx # None =>
              /\ h.rx = p_move_rx
              /\ h.tok = turn_token
              /\ ~h.delivered
              /\ h.ctx.sent = << >>
              /\ Len(h.ctx.calls) = 1
              /\ h.ctx.game = player_connected(game, name)

\* A connection can log in while a turn is outstanding in a game with a
\* stone on the board.
C22_Witness ==
    /\ p_move_rx # None
    /\ ConnectPasses # {}
    /\ game.board.cells[1] # Empty

\* The entries of a registry that carry the name.
EntriesOf(table, name) ==
    { i \in 1..Len(table.players) : table.players[i].name = name }

\* C23: the registry never holds two entries with the same name, neither
\* while the controller waits nor after any handler; adding a player under a
\* name leaves exactly one entry with that name, the one with the new
\* channel, so a lookup by name can only return that entry.
C23_RegistryNamesUnique ==
    /\ \A name \in Names : Cardinality(EntriesOf(players, name)) <= 1
    /\ \A h \in Passes : \A name \in Names :
          Cardinality(EntriesOf(h.ctx.players, name)) <= 1
    /\ \A name \in Names : \A h \in { g \in ConnectPasses : g = ConnectPass(name) } :
          /\ \E i \in EntriesOf(h.ctx.players, name) :
                /\ EntriesOf(h.ctx.players, name) = {i}
                /\ h.ctx.players.players[i].tx = Len(conns) + 1

\* C23 witness: a player can connect under a name the registry already
\* holds with an older channel.
C23_Witness ==
    \E name \in Names :
        /\ ConnectPass(name) \in ConnectPasses
        /\ \E i \in EntriesOf(players, name) : players.players[i].tx <= Len(conns)

\* ------------------------------------------- the registry's colours alone

\* Names added to a registry on its own, as test::flow of player_table.rs
\* does with the strings "1", "2", ...: two more than the palette has paints.
MaxPaintNames == 23

\* Entries the registry holds at a time in this specification.
MaxTable == 2

\* The names the bucket has given a colour.
Painted == DOMAIN players.paint_bucket.taken_paints

\* p.add_new_player(name, tx): a known name, or the next unseen one.
PaintAdd(name) ==
    /\ name <= Cardinality(Painted) + 1
    /\ Cardinality({ i \in 1..Len(players.players) : players.players[i].name # name })
          < MaxTable
    /\ players' = PlayerTable_add_new_player(players, name, 1)
    /\ UNCHANGED <<game, p_move_rx, turn_token, controller_info, pc, conns,
                   issued, last_turn, eliminated,
                   user_pass_db>>

\* p.remove_player(name)
PaintRemove(name) ==
    /\ \E i \in 1..Len(players.players) : players.players[i].name = name
    /\ players' = PlayerTable_remove_player(players, name)
    /\ UNCHANGED <<game, p_move_rx, turn_token, controller_info, pc, conns,
                   issued, last_turn, eliminated,
                   user_pass_db>>

NextPaint ==
    \/ \E name \in 1..MaxPaintNames : PaintAdd(name)
    \/ \E name \in 1..MaxPaintNames : PaintRemove(name)

SpecPaint == Init /\ [][NextPaint]_vars

\* C24: across every add and remove a painted name keeps its colour and
\* every entry of the registry carries its name's colour; a name painted
\* while free paints remain gets a colour no other name has been given, and
\* a name painted after the last paint is gone gets the fallback gray.
C24_ColourKeptAndFresh ==
    [][ LET before == players.paint_bucket
            after  == players'.paint_bucket
        IN  /\ \A n \in DOMAIN before.taken_paints :
                  /\ n \in DOMAIN after.taken_paints
                  /\ after.taken_paints[n] = before.taken_paints[n]
            /\ \A i \in 1..Len(players'.players) :
                  /\ players'.players[i].name \in DOMAIN after.taken_paints
                  /\ players'.players[i].color
                        = after.taken_paints[players'.players[i].name]
            /\ \A n \in DOMAIN after.taken_paints \ DOMAIN before.taken_paints :
                  IF before.free_paints # << >>
                  THEN /\ \A m \in DOMAIN before.taken_paints :
                             before.taken_paints[m] # after.taken_paints[n]
                       /\ Len(after.free_paints) = Len(before.free_paints) - 1
                  ELSE /\ after.taken_paints[n] = Color_GRAY
                       /\ after.free_paints = << >> ]_vars

\* C24 witness: the palette is used up, two names painted after that share
\* the fallback, and the registry holds a name again that was removed after
\* a later name had joined (it stands behind that name).
C24_Witness ==
    /\ players.paint_bucket.free_paints = << >>
    /\ \E n, m \in Painted :
          /\ n # m
          /\ n > Len(PaintBucket_new.free_paints)
          /\ m > Len(PaintBucket_new.free_paints)
          /\ players.paint_bucket.taken_paints[n] = players.paint_bucket.taken_paints[m]
    /\ Len(players.players) = 2
    /\ players.players[1].name > players.players[2].name
    /\ players.players[2].color = players.paint_bucket.taken_paints[players.players[2].name]

\* ------------------------------------------------ the board rules alone

\* The board of the rule tests (Game::new(w, h, users) followed by make_move
\* calls), small enough to enumerate: a run of 5 fits in every orientation.
BoardWidth == 5
BoardHeight == 5
BoardUsers == <<"p1", "p2", "p3">>

\* The x and y a PlayerMove can carry: usize values on the board, one past
\* its edge, and at the two places where the cast to the signed integer
\* changes sign (half its range) and wraps (its full range).
CoordInputs ==
    (0..BoardWidth) \cup (0..BoardHeight)
       \cup { 2 ^ (I32Bits - 1), 2 ^ I32Bits - 1, 2 ^ I32Bits }

\* Index into Board.cells of the cell at (x, y).
CellIndex(x, y) == y * BoardWidth + x + 1

\* The four orientations: horizontal, vertical and the two diagonals.
Orientations == { <<1, 0>>, <<0, 1>>, <<1, 1>>, <<1, -1>> }

\* The cells of the board on the straight line through (x, y) along d.
LineCells(x, y, d) ==
    { CellIndex(x + k * d[1], y + k * d[2]) :
        k \in { j \in (0 - BoardWidth - BoardHeight)..(BoardWidth + BoardHeight) :
                  /\ x + j * d[1] \in 0..(BoardWidth - 1)
                  /\ y + j * d[2] \in 0..(BoardHeight - 1) } }

Lines ==
    { LineCells(x, y, d) :
        x \in 0..(BoardWidth - 1), y \in 0..(BoardHeight - 1), d \in Orientations }

\* Stones of player2 and player3 laid so that neither has a run of 5.
Pattern(i) ==
    IF (((i - 1) % BoardWidth) + 2 * ((i - 1) \div BoardWidth)) % 4 < 2
    THEN Occupied(BoardUsers[2]) ELSE Occupied(BoardUsers[3])

\* The positions the placements are tried on.  Along one line every cell is
\* a stone of player1 or empty, but for at most one stone of another player,
\* the rest of the board being empty; or every cell of the line is a stone of player1 or
\* empty, the rest of the board being covered with stones of the others.
BoardCells ==
    UNION { { [i \in 1..(BoardWidth * BoardHeight) |->
                 IF i \in L
                 THEN CASE f[i] = "own"   -> Occupied(BoardUsers[1])
                        [] f[i] = "empty" -> Empty
                        [] f[i] = "other" -> Pattern(i)
                 ELSE Empty] :
              f \in { g \in [L -> {"own", "empty", "other"}] :
                         Cardinality({ i \in L : g[i] = "other" }) <= 1 } }
            \cup
            { [i \in 1..(BoardWidth * BoardHeight) |->
                 IF i \in L
                 THEN IF f[i] = "own" THEN Occupied(BoardUsers[1]) ELSE Empty
                 ELSE Pattern(i)] :
              f \in [L -> {"own", "empty"}] } :
            L \in Lines }

\* A game on one of the positions, nobody having won.
InitBoard ==
    /\ game \in { [Game_new(BoardWidth, BoardHeight, BoardUsers)
                     EXCEPT !.board.cells = c] : c \in BoardCells }
    /\ p_move_rx = None
    /\ turn_token = None
    /\ players = PlayerTable_new
    /\ controller_info = ControllerInfo_default
    /\ pc = "run"
    /\ conns = <<>>
    /\ issued = None
    /\ eliminated = {}
    /\ last_turn = None
    /\ user_pass_db = << >>

\* make_move(&mut game, user, PlayerMove { x, y }) on one of the positions.
BoardMove(user, x, y) ==
    /\ game' = make_move(game, user, [x |-> x, y |-> y]).game
    /\ UNCHANGED <<p_move_rx, turn_token, players, controller_info, pc, conns,
                   issued, last_turn, eliminated,
                   user_pass_db>>

\* One of the positions, nobody having won on it.
OnPosition ==
    /\ game.winner = None
    /\ game.board.cells \in BoardCells

\* Moves are tried on the positions, not on what a move makes of them.
NextBoard ==
    /\ OnPosition
    /\ \E user \in {BoardUsers[1], BoardUsers[2]} :
          \E x \in CoordInputs : \E y \in CoordInputs : BoardMove(user, x, y)

SpecBoard == InitBoard /\ [][NextBoard]_vars

\* The moves tried on a position.
BoardMoves == {BoardUsers[1], BoardUsers[2]} \X CoordInputs \X CoordInputs

\* The cells in which two boards differ.
Changed(before, after) ==
    { i \in 1..Len(before.cells) : before.cells[i] # after.cells[i] }

\* The cell with index i lies, in some orientation, in an unbroken row of
\* five cells of the board that all belong to user.
InRunOfFive(board, user, i) ==
    \E d \in Orientations : \E k \in 0..4 : \A j \in 0..4 :
        LET x == ((i - 1) % board.width) + (j - k) * d[1]
            y == ((i - 1) \div board.width) + (j - k) * d[2]
        IN  /\ x \in 0..(board.width - 1)
            /\ y \in 0..(board.height - 1)
            /\ board.cells[y * board.width + x + 1] = Occupied(user)

\* C25: a placement whose x is not below the width, whose y is not below the
\* height, or whose cell is occupied, is rejected as InvalidMove and
\* changes no cell.
C25_OutOfRangeRejected ==
    OnPosition =>
        \A mv \in BoardMoves :
            (\/ mv[2] >= game.board.width
             \/ mv[3] >= game.board.height
             \/ game.board.cells[mv[3] * game.board.width + mv[2] + 1] # Empty)
            => With(try_place(game.board, mv[1], mv[2], mv[3]), LAMBDA r :
                   /\ r.result = "InvalidMove"
                   /\ r.board = game.board)

\* C26: a placement that is not rejected occupies exactly one cell, which
\* was empty, for the mover, and it is a Win exactly when that cell lies in
\* an unbroken row of five of the mover's cells in one of the four
\* orientations.
C26_WinIffRunOfFive ==
    OnPosition =>
        \A mv \in BoardMoves :
            With(make_move(game, mv[1], [x |-> mv[2], y |-> mv[3]]), LAMBDA m :
                m.result # "InvalidMove" =>
                    \E i \in Changed(game.board, m.game.board) :
                        /\ Changed(game.board, m.game.board) = {i}
                        /\ game.board.cells[i] = Empty
                        /\ m.game.board.cells[i] = Occupied(mv[1])
                        /\ (m.result = "Win")
                              <=> InRunOfFive(m.game.board, mv[1], i))

\* C26 witness: a position on which one move wins along the falling
\* diagonal, the other player's move to the same cell does not win, and a
\* move of the same player next to a row broken by another player's stone
\* does not win either.
C26_Witness ==
    /\ OnPosition
    /\ \E x \in 0..(BoardWidth - 1) : \E y \in 0..(BoardHeight - 1) :
          /\ make_move(game, BoardUsers[1], [x |-> x, y |-> y]).result = "Win"
          /\ make_move(game, BoardUsers[2], [x |-> x, y |-> y]).result = "Ok"
          /\ \A j \in 0..4 : j # x =>
                game.board.cells[(4 - j) * BoardWidth + j + 1] = Occupied(BoardUsers[1])
          /\ y = 4 - x

\* C26 witness: four stones of one player and one of another in a row, the
\* move into the empty cell beside them is no win.
C26_WitnessBroken ==
    /\ OnPosition
    /\ \A x \in 0..2 : game.board.cells[x + 1] = Occupied(BoardUsers[1])
    /\ game.board.cells[4] = Occupied(BoardUsers[3])
    /\ game.board.cells[5] = Empty
    /\ make_move(game, BoardUsers[1], [x |-> 4, y |-> 0]).result = "Ok"

U32Bits == 4

\* The values of a u32.
U32Values == 0..(2 ^ U32Bits - 1)

\* Players in the rotation of the counter game at a time.
MaxDumbPlayers == 2

\* Move lines for the counter game: {"move":{"add":n}} with n a u32, or a
\* line that is not one (a larger n does not deserialise either).
DumbPayloads ==
    { [fmt |-> "move", add |-> a] : a \in U32Values }
        \cup { [fmt |-> "other", add |-> 0] }

\* gametraits::to_player_move::<dumb::PlayerMove>
dumb_to_player_move(p_move) ==
    IF p_move.fmt = "move" THEN Some([add |-> p_move.add]) ELSE None

\* dumb::Game::new
dumb_Game_new == [count |-> [num |-> 0], players |-> TurnTracker_new(<<>>)]

\* dumb::make_move: `state.count.num += p_move.add` on u32.  When the sum
\* does not fit, a build with overflow checks panics and a build without
\* them keeps the low bits.
dumb_make_move(state, p_move) ==
    IF state.count.num + p_move.add < 2 ^ U32Bits
    THEN { [game  |-> [state EXCEPT !.count.num = @ + p_move.add],
            panic |-> FALSE] }
    ELSE { [game  |-> [state EXCEPT
                         !.count.num = (@ + p_move.add) % (2 ^ U32Bits)],
            panic |-> FALSE],
           [game |-> state, panic |-> TRUE] }

\* PlayerTurn { token: TurnToken { user }, state: to_game_state(&self.count) }
dumb_PlayerTurn(user, state) == [token |-> user, state |-> state.count.num]

\* dumb::Game::player_moves: the outcomes a build can produce.
dumb_player_moves(state, token, player_move) ==
    With(dumb_to_player_move(player_move), LAMBDA parsed :
        IF parsed = None
        THEN With(TurnTracker_remove_player(state.players, token), LAMBDA r :
                 IF r.panic
                 THEN { [game |-> state, result |-> "InvalidFormat",
                         turn |-> None, panic |-> TRUE] }
                 ELSE With(TurnTracker_advance_player(r.tt), LAMBDA a :
                     With([state EXCEPT !.players = a.tt], LAMBDA g :
                         { [game |-> g, result |-> "InvalidFormat",
                            turn |-> IF a.user = None THEN None
                                     ELSE Some(dumb_PlayerTurn(a.user[1], g)),
                            panic |-> FALSE] })))
        ELSE { IF m.panic
               THEN [game |-> state, result |-> "Ok", turn |-> None,
                     panic |-> TRUE]
               ELSE With(TurnTracker_advance_player(m.game.players), LAMBDA a :
                    With([m.game EXCEPT !.players = a.tt], LAMBDA g :
                        [game |-> g, result |-> "Ok",
                         turn |-> IF a.user = None THEN None
                                  ELSE Some(dumb_PlayerTurn(a.user[1], g)),
                         panic |-> a.user = None]))
               : m \in dumb_make_move(state, parsed[1]) })

\* dumb::Game::player_connected
dumb_player_connected(state, user) ==
    [state EXCEPT !.players = TurnTracker_add_player(@, user)]

\* dumb::Game::try_start_game
dumb_try_start_game(state) ==
    With(TurnTracker_advance_player(state.players), LAMBDA a :
        With([state EXCEPT !.players = a.tt], LAMBDA g :
            [game |-> g,
             turn |-> IF a.user = None THEN None
                      ELSE Some(dumb_PlayerTurn(a.user[1], g)),
             panic |-> a.user = None]))

\* ------------------------------------------------ the counter game alone

\* The controller started on a counter game (test_entry of main.rs).
InitDumb ==
    /\ game = dumb_Game_new
    /\ p_move_rx = None
    /\ turn_token = None
    /\ players = PlayerTable_new
    /\ controller_info = ControllerInfo_default
    /\ pc = "run"
    /\ conns = <<>>
    /\ issued = None
    /\ eliminated = {}
    /\ last_turn = None
    /\ user_pass_db = << >>

\* A user logs in: player_connected, and try_start_game when no turn is out.
DumbConnect(name) ==
    /\ pc = "run"
    /\ Len(game.players.players) < MaxDumbPlayers
    /\ \A i \in 1..Len(game.players.players) : game.players.players[i] # name
    /\ With(dumb_player_connected(game, name), LAMBDA g :
          IF turn_token = None
          THEN With(dumb_try_start_game(g), LAMBDA s :
                   /\ game' = s.game
                   /\ turn_token' = IF s.turn = None THEN None
                                    ELSE Some(s.turn[1].token)
                   /\ pc' = IF s.panic THEN "panicked" ELSE "run")
          ELSE /\ game' = g
               /\ UNCHANGED <<turn_token, pc>>)
    /\ UNCHANGED <<p_move_rx, players, controller_info, conns, issued,
                   last_turn, eliminated,
                   user_pass_db>>

\* The holder of the turn answers with a line: player_moves, and the turn
\* it returns goes out.
DumbMove(player_move) ==
    /\ pc = "run"
    /\ turn_token # None
    /\ \E o \in dumb_player_moves(game, turn_token[1], player_move) :
          /\ game' = o.game
          /\ turn_token' = IF o.turn = None THEN None
                           ELSE Some(o.turn[1].token)
          /\ pc' = IF o.panic THEN "panicked" ELSE "run"
    /\ UNCHANGED <<p_move_rx, players, controller_info, conns, issued,
                   last_turn, eliminated,
                   user_pass_db>>

NextDumb ==
    \/ \E name \in Names : DumbConnect(name)
    \/ \E player_move \in DumbPayloads : DumbMove(player_move)

SpecDumb == InitDumb /\ [][NextDumb]_vars

\* C28: whatever the counter has reached, every add value of a u32 sent by
\* the holder of the turn is accepted without a panic, and the state in the
\* turn that goes out next is the counter before the move plus the add
\* value; starting from 0, the state is the sum of the accepted add values.
C28_CounterIsExactSum ==
    /\ game.count.num \in U32Values
    /\ (pc = "run" /\ turn_token # None) =>
          \A add \in U32Values :
              \A o \in dumb_player_moves(game, turn_token[1],
                                         [fmt |-> "move", add |-> add]) :
                  /\ ~o.panic
                  /\ o.result = "Ok"
                  /\ o.turn # None
                  /\ o.turn[1].state = game.count.num + add

\* ------------------------------------ authorization in the connection tasks

\* Connections whose first line is an auth line.
MaxAuths == 3

\* The passwords the clients send.
Passwords == {"pass", "wrong pass"}

\* messages::WRONG_PASSWORD
WRONG_PASSWORD == [error |-> "wrong password"]

\* accept_connection_loop spawns process_user_connection for a new socket,
\* and the task reads the line {"auth":{"username":..,"password":..}}.
AuthLine(username, password) ==
    /\ Len(conns) < MaxAuths
    /\ conns' = Append(conns, [username |-> username, password |-> password,
                               at |-> "authorize", db_password |-> None,
                               written |-> None])
    /\ UNCHANGED <<game, p_move_rx, turn_token, players, controller_info, pc,
                   issued, last_turn, eliminated, user_pass_db>>

\* authorize, first statement: lock the map, get the username's password,
\* unlock.  With a password there, the match that follows touches nothing
\* shared: equal passwords return Ok and the task sends ImConnected, other
\* passwords return Err(WRONG_PASSWORD), which the task writes to the
\* socket before it returns.
AuthGet(c) ==
    /\ conns[c].at = "authorize"
    /\ conns' =
          [conns EXCEPT ![c] =
             IF conns[c].username \in DOMAIN user_pass_db
             THEN IF user_pass_db[conns[c].username] = conns[c].password
                  THEN [@ EXCEPT !.at = "ImConnected",
                                 !.db_password = Some(user_pass_db[conns[c].username])]
                  ELSE [@ EXCEPT !.at = "returned",
                                 !.db_password = Some(user_pass_db[conns[c].username]),
                                 !.written = Some(WRONG_PASSWORD)]
             ELSE [@ EXCEPT !.at = "insert"]]
    /\ UNCHANGED <<game, p_move_rx, turn_token, players, controller_info, pc,
                   issued, last_turn, eliminated, user_pass_db>>

\* authorize, the None arm: lock the map again, insert the username with
\* the password of the line, unlock, return Ok; the task sends ImConnected.
AuthInsert(c) ==
    /\ conns[c].at = "insert"
    /\ user_pass_db' =
          [u \in DOMAIN user_pass_db \cup {conns[c].username} |->
              IF u = conns[c].username THEN conns[c].password
              ELSE user_pass_db[u]]
    /\ conns' = [conns EXCEPT ![c].at = "ImConnected"]
    /\ UNCHANGED <<game, p_move_rx, turn_token, players, controller_info, pc,
                   issued, last_turn, eliminated>>

\* The tasks run on the worker threads of the runtime: any task takes its
\* next step.
NextAuth ==
    \/ \E username \in Names : \E password \in Passwords :
          AuthLine(username, password)
    \/ \E c \in 1..Len(conns) : AuthGet(c)
    \/ \E c \in 1..Len(conns) : AuthInsert(c)

SpecAuth == Init /\ [][NextAuth]_vars

\* C29: the authentications accepted for one username all carry one
\* password, the one the map holds for the username; an authentication is
\* rejected only with a different password than an accepted one of that
\* username, it is answered 'wrong password', and its task has not sent
\* ImConnected.
C29_OnePasswordPerUsername ==
    \A c \in 1..Len(conns) :
        /\ conns[c].at = "ImConnected" =>
              /\ conns[c].username \in DOMAIN user_pass_db
              /\ user_pass_db[conns[c].username] = conns[c].password
              /\ conns[c].written = None
        /\ conns[c].at = "returned" =>
              /\ conns[c].written = Some(WRONG_PASSWORD)
              /\ conns[c].username \in DOMAIN user_pass_db
              /\ user_pass_db[conns[c].username] # conns[c].password

\* The deliveries that failed in a pass, as positions in its call log: the
\* calls of current_player_disconnected made by your_turn.  The first call
\* of a pass is never one of them (it is the call of the arm that leads to
\* your_turn).
FailedDeliveries(h) ==
    { i \in 2..Len(h.ctx.calls) :
        h.ctx.calls[i].op = "current_player_disconnected" }

\* C30: in every pass your_turn comes to an end without a panic.  Each
\* failed delivery hands the token it was for to current_player_disconnected
\* while its user is in the rotation, and the user is in the rotation no
\* more after it, so the failed deliveries are at most as many as the
\* rotation had members at the first of them.  The result is a turn whose
\* YourTurn went, as the last message of the pass, to a live handler
\* registered under the token's name, or no turn; after a failed delivery
\* no turn means that the rotation is empty.
C30_DispatchTerminates ==
    \A h \in Passes :
        /\ h.ctx.panic # "players.get"
        /\ FailedDeliveries(h) # {} => h.ctx.panic = ""
        /\ \A i \in FailedDeliveries(h) :
              /\ h.ctx.calls[i].fresh
              /\ \E k \in 1..Len(h.ctx.calls[i].users) :
                    h.ctx.calls[i].users[k] = h.ctx.calls[i].token
              /\ ~InRotation(h.ctx.game, h.ctx.calls[i].token)
              /\ \A j \in FailedDeliveries(h) :
                    j > i =>
                       /\ Len(h.ctx.calls[j].users) < Len(h.ctx.calls[i].users)
                       /\ \A k \in 1..Len(h.ctx.calls[j].users) :
                             h.ctx.calls[j].users[k] # h.ctx.calls[i].token
              /\ Cardinality({ j \in FailedDeliveries(h) : j >= i })
                    <= Len(h.ctx.calls[i].users)
        /\ h.delivered =>
              /\ h.rx # None /\ h.tok # None
              /\ h.ctx.conns[h.rx[1]].rx
              /\ h.ctx.conns[h.rx[1]].name = h.tok[1]
              /\ InRotation(h.ctx.game, h.tok[1])
              /\ h.ctx.sent # << >>
              /\ h.ctx.sent[Len(h.ctx.sent)].msg = "YourTurn"
              /\ h.ctx.sent[Len(h.ctx.sent)].to = h.rx[1]
              /\ h.ctx.sent[Len(h.ctx.sent)].name = h.tok[1]
        /\ (FailedDeliveries(h) # {} /\ ~h.delivered) =>
              /\ h.rx = None /\ h.tok = None
              /\ h.ctx.game.players.players = << >>

\* C30 witness: a pass in which a delivery fails and the next one succeeds.
C30_Witness ==
    \E h \in Passes : FailedDeliveries(h) # {} /\ h.delivered

\* C30 witness: a pass in which every delivery fails and no turn is left.
C30_WitnessNoTurn ==
    \E h \in Passes : FailedDeliveries(h) # {} /\ ~h.delivered /\ h.rx = None

\* -------------------------------------------- the engine's rotation alone

\* The users of the rule tests (player1, player2, player3) as the players
\* that join one engine.
EngineUsers == {"p1", "p2", "p3"}

\* Members the rotation holds at a time in this specification.
MaxRotation == 3

\* What the controller does with an Option<PlayerTurn> of the engine: the
\* engine after the call, and the token of the turn as the outstanding one.
EngineTurn(g, turn) ==
    /\ game' = g
    /\ turn_token' = token_of(turn)
    /\ UNCHANGED <<p_move_rx, players, controller_info, pc, conns, issued,
                   last_turn, eliminated, user_pass_db>>

\* ImConnected for a user not in the rotation: player_connected, and
\* try_start_game when no turn is outstanding.
EngineConnect(user) ==
    /\ Len(game.players.players) < MaxRotation
    /\ ~ \E j \in 1..Len(game.players.players) : game.players.players[j] = user
    /\ With(player_connected(game, user), LAMBDA g :
          IF turn_token = None
          THEN With(try_start_game(g), LAMBDA s : EngineTurn(s.game, s.turn))
          ELSE EngineTurn(g, Some([token |-> turn_token[1]])))

\* Event::Move: player_moves with the outstanding token.  After Win and
\* Draw the game maker makes a new game for the players and try_start_game
\* gives its first turn.
EngineMove(mov) ==
    /\ turn_token # None
    /\ With(player_moves(game, turn_token[1], mov), LAMBDA r :
          /\ ~r.panic
          /\ IF r.result \in {"Win", "Draw"}
             THEN With(try_start_game(game_maker(r.game.players.players)),
                       LAMBDA s : EngineTurn(s.game, s.turn))
             ELSE EngineTurn(r.game, r.turn))

\* ImDisconnected from the holder of the token, or a YourTurn that cannot
\* be delivered: current_player_disconnected with the outstanding token.
EngineHolderGone ==
    /\ turn_token # None
    /\ With(current_player_disconnected(game, turn_token[1]), LAMBDA r :
          /\ ~r.panic
          /\ EngineTurn(r.game, r.turn))

\* ImDisconnected from a member of the rotation that does not hold the
\* token: player_disconnected.
EngineOtherGone(user) ==
    /\ turn_token # None
    /\ turn_token[1] # user
    /\ \E j \in 1..Len(game.players.players) : game.players.players[j] = user
    /\ With(player_disconnected(game, user), LAMBDA r :
          /\ ~r.panic
          /\ EngineTurn(r.game, Some([token |-> turn_token[1]])))

NextEngine ==
    \/ \E user \in EngineUsers : EngineConnect(user)
    \/ \E mov \in ClientMoves : EngineMove(mov)
    \/ EngineHolderGone
    \/ \E user \in EngineUsers : EngineOtherGone(user)

SpecEngine == Init /\ [][NextEngine]_vars

\* The member of the rotation that follows user in rotation order, the
\* first member following the last; user is a member.
Successor(rotation, user) ==
    LET i == CHOOSE k \in 1..Len(rotation) : rotation[k] = user
    IN  rotation[(i % Len(rotation)) + 1]

\* The holder of the token is a member of the rotation and not the only one.
HolderInCompany ==
    /\ turn_token # None
    /\ \E j \in 1..Len(game.players.players) :
          game.players.players[j] = turn_token[1]
    /\ \E j \in 1..Len(game.players.players) :
          game.players.players[j] # turn_token[1]

\* C31: when the holder of the turn is removed from the rotation, by a move
\* that is rejected or by current_player_disconnected, and other players
\* remain, the turn that is returned is for the player that followed the
\* holder in the rotation, the first one following the last.
C31_ReplacementIsSuccessor ==
    HolderInCompany =>
        /\ \A mov \in ClientMoves :
              With(player_moves(game, turn_token[1], mov), LAMBDA r :
                  r.result \in {"InvalidMove", "InvalidFormat"} =>
                     /\ ~r.panic
                     /\ r.turn # None
                     /\ r.turn[1].token
                           = Successor(game.players.players, turn_token[1]))
        /\ With(current_player_disconnected(game, turn_token[1]), LAMBDA r :
              /\ ~r.panic
              /\ r.turn # None
              /\ r.turn[1].token
                    = Successor(game.players.players, turn_token[1]))

\* The moves of ClientMoves that player_moves accepts with Ok.
AcceptedMoves ==
    { mov \in ClientMoves :
        turn_token # None
        /\ player_moves(game, turn_token[1], mov).result = "Ok" }

\* C32: whenever the holder of the turn is a member of the rotation and its
\* move is accepted, the next turn is for the member that follows the holder
\* in join order, the first one following the last, so that with the
\* membership unchanged the turns go round the rotation, one per member and
\* cycle; a user that joins meanwhile is appended behind the members and
\* leaves the order of the others as it was.
C32_TurnsInJoinOrder ==
    (/\ turn_token # None
     /\ \E j \in 1..Len(game.players.players) :
           game.players.players[j] = turn_token[1]) =>
        /\ \A mov \in AcceptedMoves :
              With(player_moves(game, turn_token[1], mov), LAMBDA r :
                  /\ ~r.panic
                  /\ r.turn # None
                  /\ r.game.players.players = game.players.players
                  /\ r.turn[1].token
                        = Successor(game.players.players, turn_token[1]))
        /\ \A user \in EngineUsers \ { game.players.players[j] :
                                          j \in 1..Len(game.players.players) } :
              With(player_connected(game, user), LAMBDA g :
                  /\ g.players.players = Append(game.players.players, user)
                  /\ \A mov \in AcceptedMoves :
                        player_moves(g, turn_token[1], mov).turn[1].token
                           = Successor(g.players.players, turn_token[1]))

\* The members of the rotation other than the holder of the turn.
OtherMembers ==
    { user \in EngineUsers :
        /\ turn_token # None
        /\ user # turn_token[1]
        /\ \E j \in 1..Len(game.players.players) :
              game.players.players[j] = user }

\* C39: when a member other than the holder is removed from the rotation
\* (player_disconnected) and the holder then makes an accepted move, the next
\* turn is for the member that follows the holder among those that remain,
\* and it is not the holder's again while another member remains.
C39_RemovalKeepsNextMover ==
    HolderInCompany =>
        \A user \in OtherMembers :
            With(player_disconnected(game, user), LAMBDA d :
                /\ ~d.panic
                /\ \A mov \in AcceptedMoves :
                      With(player_moves(d.game, turn_token[1], mov), LAMBDA r :
                          /\ ~r.panic
                          /\ r.turn # None
                          /\ r.turn[1].token
                                = Successor(d.game.players.players,
                                            turn_token[1])
                          /\ Len(d.game.players.players) > 1
                                => r.turn[1].token # turn_token[1]))

\* C37: the rotation of the engine never holds the same name twice, whatever
\* Connect and Disconnect events the controller has processed.
C37_RotationWithoutDuplicates ==
    \A i, j \in 1..Len(game.players.players) :
        game.players.players[i] = game.players.players[j] => i = j

\* The connections whose user has logged in again since: a later connection
\* under the same name is open and the registry holds its channel, so the
\* Connect of the new connection was processed and the Disconnect of the old
\* one is still to come.
Superseded ==
    { c \in 1..Len(conns) :
        /\ ~conns[c].disc
        /\ \E d \in (c + 1)..Len(conns) :
              /\ conns[d].name = conns[c].name
              /\ ~conns[d].disc
              /\ \E j \in 1..Len(players.players) :
                    /\ players.players[j].name = conns[c].name
                    /\ players.players[j].tx = d }

\* C38: when the Disconnect of a connection is processed after the Connect
\* of a later connection under the same name, the pass ends without a panic
\* and leaves the name in the registry, with the channel of the later
\* connection, and in the rotation.
C38_LateDisconnectSparesNewConnection ==
    pc = "run" =>
        \A c \in Superseded :
            With(DisconnectPass(c), LAMBDA h :
                /\ h.ctx.panic = ""
                /\ \E j \in 1..Len(h.ctx.players.players) :
                      /\ h.ctx.players.players[j].name = conns[c].name
                      /\ h.ctx.players.players[j].tx > c
                /\ \E j \in 1..Len(h.ctx.game.players.players) :
                      h.ctx.game.players.players[j] = conns[c].name)

\* C34: the pass of the loop body for a reply sender that was dropped
\* without a move changes nothing: registry, rotation, board, scores, mode,
\* receiver and outstanding token are after it what they were before, and
\* so the holder is still registered and in the rotation until a Disconnect
\* for its name is processed.
C34_DroppedSenderChangesNothing ==
    [][PlayerMoveDropped =>
          UNCHANGED <<game, players, controller_info, p_move_rx, turn_token,
                      pc>>]_vars

\* A turn is outstanding, its reply sender was dropped without a move, and
\* the holder is still registered and in the rotation.
C34_Witness ==
    /\ pc = "run"
    /\ p_move_rx # None
    /\ conns[p_move_rx[1]].mov_tx = "dropped"
    /\ turn_token # None
    /\ PlayerTable_has(players, turn_token[1])
    /\ \E j \in 1..Len(game.players.players) :
          game.players.players[j] = turn_token[1]

\* The passes of the loop body for the control events other than the
\* holder's reply, the Disconnect of the holder and a change to Gating.
OtherControlPasses ==
    IF pc = "run" /\ turn_token # None
    THEN (ConnectPasses
          \cup { DisconnectPass(c) :
                   c \in { d \in 1..Len(conns) :
                             ~conns[d].disc /\ conns[d].name # turn_token[1] } }
          \cup { GoToModePass(new_mode) : new_mode \in GameMode \ {"Gating"} }
          \cup { SetTurnDelayPass(delay) : delay \in Delays }
          \cup { SetWinDelayPass(delay) : delay \in Delays }
          \cup { ResetGamePass })
    ELSE {}

\* C33: while a turn is outstanding, every Connect, Disconnect of a player
\* other than the holder, delay setting and change to a mode other than
\* Gating is handled to its end and leaves the receiver and the token of the
\* turn as they were and sends no YourTurn: the turn never times out.
C33_TurnStaysOutstanding ==
    (pc = "run" /\ turn_token # None /\ p_move_rx # None) =>
        \A h \in OtherControlPasses :
            /\ h.ctx.panic = ""
            /\ h.tok = turn_token
            /\ h.rx = p_move_rx
            /\ \A i \in 1..Len(h.ctx.sent) : h.ctx.sent[i].msg # "YourTurn"

\* The cells from first to last form a straight row in one orientation, of
\* at least five cells of the board, all of them user's, and (x, y) is one
\* of them.
RunBetween(board, user, first, last, x, y) ==
    \E d \in Orientations : \E n \in 4..(board.width + board.height) :
        /\ last = <<first[1] + n * d[1], first[2] + n * d[2]>>
        /\ \A k \in 0..n :
              Board_at(board, first[1] + k * d[1], first[2] + k * d[2])
                 = Some(Occupied(user))
        /\ \E k \in 0..n : <<x, y>> = <<first[1] + k * d[1], first[2] + k * d[2]>>

\* C35: a move that wins records, with the winner, the first and the last
\* cell of a row of at least five of the winner's cells in one orientation,
\* and the cell just placed lies in that row.
C35_WinEndpoints ==
    OnPosition =>
        \A mv \in BoardMoves :
            With(make_move(game, mv[1], [x |-> mv[2], y |-> mv[3]]), LAMBDA m :
                m.result = "Win" =>
                    /\ m.game.winner # None
                    /\ m.game.winner[1][1] = mv[1]
                    /\ RunBetween(m.game.board, mv[1],
                                  m.game.winner[1][2][1], m.game.winner[1][2][2],
                                  as_i32(mv[2]), as_i32(mv[3])))

\* C35 witness: the four cells left of (4, 2) are player1's, and its move to
\* (4, 2) wins with the endpoints (0, 2) and (4, 2).
C35_Witness ==
    /\ OnPosition
    /\ \A x \in 0..3 : game.board.cells[CellIndex(x, 2)] = Occupied(BoardUsers[1])
    /\ With(make_move(game, BoardUsers[1], [x |-> 4, y |-> 2]), LAMBDA m :
          /\ m.result = "Win"
          /\ m.game.winner = Some(<<BoardUsers[1], << <<0, 2>>, <<4, 2>> >> >>))

\* C35 witness: a win through the centre along the diagonal on which y
\* falls as x grows, reported from its cell with the least x to the one with
\* the greatest.
C35_WitnessDiagonal ==
    /\ OnPosition
    /\ With(make_move(game, BoardUsers[1], [x |-> 2, y |-> 2]), LAMBDA m :
          /\ m.result = "Win"
          /\ m.game.winner = Some(<<BoardUsers[1], << <<0, 4>>, <<4, 0>> >> >>))

\* ------------------------------------------ the registry's position alone

\* Names added to a registry on its own, "1", "2", ... as in test::flow of
\* player_table.rs, and the entries it holds at a time.
MaxSeatNames == 5
MaxSeats == 4

\* p.add_new_player(name, tx): a known name, or the next unseen one.
SeatAdd(name) ==
    /\ name <= Cardinality(Painted) + 1
    /\ Cardinality({ i \in 1..Len(players.players) : players.players[i].name # name })
          < MaxSeats
    /\ players' = PlayerTable_add_new_player(players, name, 1)
    /\ UNCHANGED <<game, p_move_rx, turn_token, controller_info, pc, conns,
                   issued, last_turn, eliminated, user_pass_db>>

\* p.remove_player(name)
SeatRemove(name) ==
    /\ PlayerTable_has(players, name)
    /\ players' = PlayerTable_remove_player(players, name)
    /\ UNCHANGED <<game, p_move_rx, turn_token, controller_info, pc, conns,
                   issued, last_turn, eliminated, user_pass_db>>

\* p.remove_current()
SeatRemoveCurrent ==
    /\ ~PlayerTable_remove_current(players).panic
    /\ players' = PlayerTable_remove_current(players).table
    /\ UNCHANGED <<game, p_move_rx, turn_token, controller_info, pc, conns,
                   issued, last_turn, eliminated, user_pass_db>>

\* p.advance_player()
SeatAdvance ==
    /\ players' = PlayerTable_advance_player(players)
    /\ UNCHANGED <<game, p_move_rx, turn_token, controller_info, pc, conns,
                   issued, last_turn, eliminated, user_pass_db>>

NextSeat ==
    \/ \E name \in 1..MaxSeatNames : SeatAdd(name)
    \/ \E name \in 1..MaxSeatNames : SeatRemove(name)
    \/ SeatRemoveCurrent
    \/ SeatAdvance

SpecSeat == Init /\ [][NextSeat]_vars

\* The name of the player current() names, if it names one.
CurrentName(table) ==
    With(PlayerTable_current(table), LAMBDA cur :
        IF cur = None THEN None ELSE Some(cur[1].name))

\* What adding an absent name, removing a player other than the current one
\* and remove_current make of current(), given which tables the first two
\* are asked to preserve it on.
CurrentKept(asked) ==
    /\ asked =>
          /\ \A name \in 1..MaxSeatNames :
                ~PlayerTable_has(players, name) =>
                   CurrentName(PlayerTable_add_new_player(players, name, 1))
                      = CurrentName(players)
          /\ \A name \in 1..MaxSeatNames :
                (PlayerTable_has(players, name)
                 /\ CurrentName(players) # Some(name)) =>
                   CurrentName(PlayerTable_remove_player(players, name))
                      = CurrentName(players)
    /\ PlayerTable_current(players) # None =>
          With(PlayerTable_remove_current(players), LAMBDA r :
              /\ ~r.panic
              /\ CurrentName(r.table) =
                    IF Len(players.players) = 1 THEN None
                    ELSE IF players.current_index + 1 = Len(players.players)
                    THEN Some(players.players[1].name)
                    ELSE Some(players.players[players.current_index + 2].name))

C36_WitnessWrap ==
    /\ Len(players.players) = 3
    /\ players.current_index = 2
    /\ CurrentName(PlayerTable_remove_current(players).table)
          = Some(players.players[1].name)

\* ------------------------------------------- the bounded outbound channels

\* The capacity of a player's outbound channel (1024 in the source, scaled;
\* a pass sends one connection at most a GameOver and a YourTurn), and the
\* connections of this specification.
ChannelCapacity == 2
MaxChanConns == 3

\* A connection handler with its outbound channel and its position in the
\* loop of process_user_connection: "recv" at from_controller_rx.recv(),
\* "read_line" between a YourTurn and its client's line, "verdict" at
\* move_err_rx once its move is sent, "done" when it has returned.
ChanConn(name) ==
    [name |-> name, rx |-> TRUE, mov_tx |-> "none", msg |-> None,
     disc |-> FALSE, queue |-> << >>, at |-> "recv"]

\* The messages of a pass that go through the outbound channel of
\* connection c, in the order of the sends.
Outbound(sent, c) ==
    SelectSeq(sent, LAMBDA s :
        s.to = c /\ s.msg \in {"YourTurn", "GameOver Winner", "GameOver Draw"})

\* tx.send(msg).await on the bounded channels: every send of the pass finds
\* room.  A send to a full channel whose receiver is alive waits for room.
Fits(h, cs) ==
    \A c \in 1..Len(cs) :
        Len(cs[c].queue) + Len(Outbound(h.ctx.sent, c)) <= ChannelCapacity

\* The connections with the messages of the pass in their channels.
Queued(cs, sent) ==
    [c \in 1..Len(cs) |->
        [cs[c] EXCEPT !.queue = @ \o
            [i \in 1..Len(Outbound(sent, c)) |-> Outbound(sent, c)[i].msg]]]

\* A pass of the loop body that completes: all its sends found room.
ChanPass(h, cs) ==
    /\ Fits(h, cs)
    /\ Finish(h, Queued(cs, h.ctx.sent))

\* A client logs in as name; the controller handles ImConnected.
ChanConnect(name) ==
    /\ pc = "run"
    /\ Len(conns) < MaxChanConns
    /\ With(Append(conns, ChanConn(name)), LAMBDA cs :
          ChanPass(on_connected(Ctx(cs), name, Len(cs)), cs))

\* ControllerMsg::GoToMode
ChanGoToMode(new_mode) ==
    /\ pc = "run"
    /\ ChanPass(on_go_to_mode(Ctx(conns), new_mode), conns)

\* from_controller_rx.recv() in the handler of connection c: a GameOver is
\* written to the client and the handler comes back for more, a YourTurn
\* takes it to its client.
ChanRecv(c) ==
    /\ c \in 1..Len(conns)
    /\ conns[c].rx
    /\ conns[c].at = "recv"
    /\ conns[c].queue # << >>
    /\ conns' = [conns EXCEPT
                    ![c].queue = Tail(@),
                    ![c].at = IF Head(conns[c].queue) = "YourTurn"
                              THEN "read_line" ELSE "recv"]
    /\ UNCHANGED <<game, p_move_rx, turn_token, players, controller_info,
                   pc, issued, last_turn, eliminated, user_pass_db>>

\* The reply sender the handler of connection c holds belongs to the
\* receiver in p_move_rx: the YourTurn sent to it last is the one it took
\* from its channel last.
HoldsCurrentSender(c) ==
    /\ p_move_rx = Some(c)
    /\ \A i \in 1..Len(conns[c].queue) : conns[c].queue[i] # "YourTurn"

\* The client of connection c sends a line: the handler sends it on the
\* reply sender it holds and waits for the verdict, or finds the receiver
\* dropped and goes back to its channel.
ChanLine(c, mov) ==
    /\ pc = "run"
    /\ conns[c].rx
    /\ conns[c].at = "read_line"
    /\ conns' = IF HoldsCurrentSender(c)
                THEN [conns EXCEPT ![c].mov_tx = "sent",
                                   ![c].msg = Some([mov |-> mov,
                                                    err_rx |-> TRUE,
                                                    turn |-> last_turn]),
                                   ![c].at = "verdict"]
                ELSE [conns EXCEPT ![c].at = "recv"]
    /\ UNCHANGED <<game, p_move_rx, turn_token, players, controller_info,
                   pc, issued, last_turn, eliminated, user_pass_db>>

\* move_err_rx.await ends with an error when the controller dropped the
\* move unread or has finished with it: the handler goes back to its
\* channel.
ChanVerdict(c) ==
    /\ c \in 1..Len(conns)
    /\ conns[c].rx
    /\ conns[c].at = "verdict"
    /\ conns[c].mov_tx # "sent"
    /\ conns' = [conns EXCEPT ![c].at = "recv"]
    /\ UNCHANGED <<game, p_move_rx, turn_token, players, controller_info,
                   pc, issued, last_turn, eliminated, user_pass_db>>

\* The pass for the move in flight rejects it: the mover's handler is sent
\* the reason on move_err_tx and returns.
Rejects(h) ==
    \E i \in 1..Len(h.ctx.sent) :
        h.ctx.sent[i].msg \in {"invalid move", "invalid message format"}

\* Event::Move.  The mover's handler waits at move_err_rx during the pass.
ChanMove ==
    /\ MoveReady
    /\ With(MovePass, LAMBDA h :
          /\ WithinMaxScore(h)
          /\ Fits(h, Taken)
          /\ Finish(h, Queued(IF Rejects(h)
                              THEN [Exited(Taken, p_move_rx[1])
                                      EXCEPT ![p_move_rx[1]].at = "done"]
                              ELSE Taken,
                              h.ctx.sent)))

\* The lines the clients of this specification send: a move to an empty
\* cell, or a line that is no move.
ChanLines ==
    { mov \in ClientMoves :
        \/ mov.fmt = "other"
        \/ Board_at(game.board, mov.x, mov.y) = Some(Empty) }

NextChan ==
    \/ \E name \in Names : ChanConnect(name)
    \/ \E new_mode \in {"Practice", "Gating"} : ChanGoToMode(new_mode)
    \/ \E c \in 1..Len(conns) : ChanRecv(c)
    \/ \E c \in 1..Len(conns) : \E mov \in ChanLines : ChanLine(c, mov)
    \/ \E c \in 1..Len(conns) : ChanVerdict(c)
    \/ ChanMove

\* The tasks of the runtime are scheduled fairly: a handler with a message
\* in its channel takes it, a handler whose verdict is out goes on, and the
\* controller handles a move in flight once its sends can complete.  The
\* clients and the organisers are under no obligation.
SpecChan ==
    /\ Init
    /\ [][NextChan]_vars
    /\ WF_vars(ChanMove)
    /\ \A c \in 1..MaxChanConns : WF_vars(ChanRecv(c)) /\ WF_vars(ChanVerdict(c))

\* The move in flight is one the controller can handle within the scores
\* of the model.
MoveDue == MoveReady /\ WithinMaxScore(MovePass)

\* A handler can take a step of its own: take a message from its channel, or
\* go on after the verdict on its move.
HandlerCanStep ==
    \E c \in 1..Len(conns) :
        /\ conns[c].rx
        /\ \/ conns[c].at = "recv" /\ conns[c].queue # << >>
           \/ conns[c].at = "verdict" /\ conns[c].mov_tx # "sent"

\* C40: while a move of the holder is in flight the program is never stuck
\* on full channels: the sends of the pass that handles the move all find
\* room, or a handler can take a step that makes room, whatever the players
\* other than the holder leave undrained.
C40_NoDeadlockOnFullChannels ==
    MoveDue => (Fits(MovePass, Taken) \/ HandlerCanStep)

=============================================================================
